---- MODULE Spec2Model ----
(***************************************************************************)
(* Transcription engine core of the ambient-transcription application:     *)
(* the process-wide model caches (load_vosk_model / load_whisper_model),   *)
(* the on-disk result cache and the two batch engines                      *)
(* (transcribe_with_vosk / transcribe_with_whisper) of                     *)
(* src/src/transcription.py, run by several Streamlit script threads.      *)
(***************************************************************************)
EXTENDS Integers, Sequences, FiniteSets, TLC

\* ------------------------------------------------------------------ bounds
MaxCalls == 2
MaxSessions == 2
MaxChunks == 2
MaxSegments == 3
MaxConversions == 2
MaxPipelines == 2

\* ------------------------------------------------------------- value sets
\* The engine calls the script threads make, numbered in the order they start;
\* any two of them may overlap.
Calls == 1 .. MaxCalls

\* Audio file paths handed to the engines.
Paths == {"p1", "p2"}
\* Paths of uploads: the temp directory joined with the uploaded file's name.
UploadPaths == {"p1"}

\* Raw audio byte contents; NoFile: nothing readable at the path.
Contents == {1, 2}
NoFile == 0

\* Vosk model directories <<parent, name>>: two directories with one basename.
VoskDirs == {<<"a", "m">>, <<"b", "m">>}
\* Whisper model sizes, as 1-tuples.
WhisperSizes == {<<"tiny">>}

Engines == {"vosk", "whisper"}

ModelArgsOf(e) == IF e = "vosk" THEN VoskDirs ELSE WhisperSizes

\* Key of a memoised load: the decorated load function and its argument.
ResKey(e, m) == <<e, m>>
ResKeys == {ResKey(e, m) : e \in {"vosk"}, m \in VoskDirs}
           \cup {ResKey(e, m) : e \in {"whisper"}, m \in WhisperSizes}
           \cup {ResKey(e, <<z>>) : e \in {"whisper"}, z \in {"tiny", "base"}}

\* A loaded model object: which model it is and which load created it.
NoHandle == [key |-> <<>>, serial |-> 0]
Handle(k, n) == [key |-> k, serial |-> n]

\* Texts are tuples: a transcript, an "ERROR: ..." string, or the empty text.
EmptyText == <<>>

\* A message returned without the prefix.
PlainText(what) == <<what>>

\* f"ERROR: {what}"
ErrorText(what) == <<"ERROR", what>>

\* text.startswith("ERROR")
IsError(x) == Len(x) > 0 /\ x[1] = "ERROR"

\* Python dict / directory listing as a partial function.
Put(f, k, v) == [x \in (DOMAIN f) \cup {k} |-> IF x = k THEN v ELSE f[x]]
EmptyMap == [x \in {} |-> 0]

VARIABLES
    VOSK_AVAILABLE,       \* transcription.py:14-18
    WHISPER_AVAILABLE,    \* transcription.py:20-25
    audio,                \* file system: path -> content of the audio file
    dirOk,                \* file system: Vosk dir -> exists and is a directory
    vosk_model_cache,     \* transcription.py:31
    whisper_model_cache,  \* transcription.py:32
    resCache,             \* st.cache_resource store of the two load functions
    resLocks,             \* st.cache_resource per-key compute locks held
    dataCache,            \* st.cache_data store of the two engine functions
    dataLocks,            \* st.cache_data per-key compute locks held
    cacheFiles,           \* config["CACHE_DIR"]: cache file -> text in it
    calls,                \* per call: its position and its locals
    loads,                \* history: underlying loads started per model
    handed,               \* history: handles returned by the load functions
    sessions,             \* per real_time_transcribe call: position and locals
    accum,                \* the accumulation of full_transcription on its own
    tools,                \* which FFmpeg binaries exist
    outputs,              \* config["CACHE_DIR"]: converted file -> what it holds
    conv,                 \* per convert_to_wav call: position and outcome
    pipes,                \* per press of a process button: position and locals
    disk                  \* audio files of the presses: path -> state of the file

vars == <<VOSK_AVAILABLE, WHISPER_AVAILABLE, audio, dirOk, vosk_model_cache,
          whisper_model_cache, resCache, resLocks, dataCache, dataLocks,
          cacheFiles, calls, loads, handed, sessions, accum,
          tools, outputs, conv, pipes, disk>>

envVars == <<VOSK_AVAILABLE, WHISPER_AVAILABLE>>
fsVars == <<audio, dirOk>>
modelVars == <<vosk_model_cache, whisper_model_cache, resCache, resLocks,
               loads, handed>>
streamVars == <<sessions>>
convVars == <<tools, outputs, conv>>
pipeVars == <<pipes, disk>>
toolVars == <<accum, convVars, pipeVars>>
batchVars == <<dataCache, dataLocks, cacheFiles, calls>>

\* ---------------------------------------------------------- pure helpers

\* get_file_hash (src/utils.py): digest of the file's bytes, falsy when the
\* file cannot be read.
NoHash == 0
Hash(c) == ((c * 37 + 11) % 64) + 1
get_file_hash(p) == IF audio[p] = NoFile THEN NoHash ELSE Hash(audio[p])

\* Path(model_path).name
Basename(dir) == dir[Len(dir)]

\* f"vosk_{file_hash}_{model_name}.txt" / f"whisper_{file_hash}_{model_size}.txt"
VoskCacheFile(file_hash, model_path) == <<"vosk", file_hash, Basename(model_path)>>
WhisperCacheFile(file_hash, model_size) == <<"whisper", file_hash, model_size[1]>>
CacheFileOf(c) ==
    IF c.op = "vosk" THEN VoskCacheFile(c.file_hash, c.model_arg)
    ELSE WhisperCacheFile(c.file_hash, c.model_arg)

\* f"{model_size}_cpu"
WhisperCacheKey(model_size) == <<model_size[1], "cpu">>

\* The recognisers: the text a model yields for an audio content.
DecodeText(e, modelKey, content) == <<"text", e, modelKey, content>>

Available(e) == IF e = "vosk" THEN VOSK_AVAILABLE ELSE WHISPER_AVAILABLE

\* The except clauses of the engines: exception kind -> returned string.
VoskErrorFor(exc) ==
    CASE exc = "FileNotFoundError" -> ErrorText("Audio file not found")
      [] exc = "wave.Error" -> ErrorText("Invalid WAV file")
      [] OTHER -> ErrorText("Vosk transcription failed")
WhisperErrorFor(exc) ==
    CASE exc = "FileNotFoundError" -> ErrorText("Audio file not found")
      [] OTHER -> ErrorText("Whisper transcription failed")
ErrorFor(e, exc) == IF e = "vosk" THEN VoskErrorFor(exc) ELSE WhisperErrorFor(exc)

\* Key of a memoised call: the decorated function and its arguments.
MemoKey(c) == <<c.op, c.audio_path, c.model_arg>>

\* The model dict of the engine and the key a model has in it.
ModelDict(e) == IF e = "vosk" THEN vosk_model_cache ELSE whisper_model_cache
DictKey(e, m) == IF e = "vosk" THEN m ELSE WhisperCacheKey(m)

\* ------------------------------------------------------------------ state

IdleCall ==
    [pc |-> "idle", op |-> "", audio_path |-> "", model_arg |-> <<>>,
     file_hash |-> NoHash, model |-> NoHandle, transcription |-> EmptyText,
     ret |-> EmptyText,
     \* history of this call
     alone |-> FALSE,       \* every earlier call had returned when it started
     hit |-> "none",        \* served from: "memo", "file", "none"
     readFail |-> FALSE,    \* the cache file existed and could not be read
     exc |-> "",            \* what the load function raised
     didLoad |-> FALSE,     \* started an underlying model load
     serial |-> 0,          \* which load of the model that was
     waiters |-> {},        \* calls waiting for the model when its load ended
     didDecode |-> FALSE,   \* ran the recogniser
     before |-> <<>>,       \* the cache file's text when it opened it, if any
     wrote |-> "no",        \* "ok", "open failed", "write failed"
     model_info |-> <<>>]   \* the identifier given to transcribe_audio, if any

\* A function that returns without a finally clause.
NoFinally(p) == p

\* finally: if p: p.terminate()
Finally(p) == IF p = "live" THEN "terminated" ELSE p

\* What the "Start Recording" handler does with the pair returned by
\* real_time_transcribe: it stops with "failed to start or produced no data",
\* or stops with "transcription failure", or goes on to the note.
CallerOutcome(pair) ==
    IF pair.text = <<>> /\ pair.audio = 0 THEN "failed to start"
    ELSE IF pair.text = <<>> THEN "transcription failure"
    ELSE "proceed"

\* real_time_transcribe calls, numbered in the order the recordings are started.
Sessions == 1 .. MaxSessions

\* What real_time_transcribe returns: (transcription, audio_data), the text as
\* its words and the audio as its number of frames.
Result(text, frames) == [text |-> text, audio |-> frames]
FailurePair == Result(<<>>, 0)

IdleSession ==
    [pc |-> "idle", model_path |-> <<>>,
     total_iterations |-> 0, i |-> 0,
     model |-> NoHandle, rec |-> FALSE,
     p |-> "none",                   \* PyAudio instance: "none", "live", "terminated"
     stream |-> "closed",            \* "closed", "open"
     frames |-> 0,
     full_transcription |-> <<>>,
     result |-> FailurePair,
     \* history of this session
     acquire |-> "none",             \* "none", "started", "ok", "failed"
     error |-> "",                   \* what st.error showed
     opened |-> FALSE,               \* the capture stream was opened
     reads |-> 0,                    \* chunks read from the stream
     fed |-> 0,                      \* chunks fed to the recogniser
     heard |-> "",                   \* the last chunk gave a "result", a "partial"
     atStop |-> <<>>,                \* full_transcription when the loop was left
     flushed |-> FALSE,              \* rec.FinalResult() has answered
     final |-> <<>>,                 \* the text of that answer
     outcome |-> ""]                 \* what the caller made of the result

\* convert_to_wav calls, numbered in the order they are made.
Conversions == 1 .. MaxConversions

\* Uploaded files to convert, as stem and suffix.
ConvInputs == {<<"x", "mp3">>, <<"x", "m4a">>, <<"y", "mp3">>}

\* output_path: the input's name with the suffix .wav, in the cache directory.
OutputPath(input_path) == <<input_path[1], "wav">>
OutputPaths == {OutputPath(f) : f \in ConvInputs}

\* What a path in the cache directory holds: no file, a valid WAV file, a
\* valid WAV file of zero frames, or a file that is not a WAV file.
FileStates == {"none", "valid", "empty", "partial"}

NoError == [kind |-> "", message |-> "", detail |-> ""]
IdleConversion ==
    [pc |-> "idle", input_path |-> <<>>, output_path |-> <<>>,
     ffmpeg_command |-> "", result |-> <<>>, error |-> NoError,
     \* history of this call
     located |-> FALSE,              \* the binary was found and started
     exit |-> "",                    \* "", "zero", "nonzero"
     seen |-> "",                    \* what the verification found at the path
     warned |-> FALSE,               \* "appears empty" was logged
     left |-> "none"]                \* what the output path held at the raise

\* Presses of "Start Recording" and "Process Uploaded Audio", numbered in
\* the order they are handled.
Pipelines == 1 .. MaxPipelines

\* The ways a press is handled: real-time recording, record-then-transcribe,
\* an uploaded WAV file, an uploaded file of another format.
Modes == {"realtime", "record", "upload wav", "upload other"}

\* Names of uploaded files, as stem and suffix.
UploadNames == {<<"x", "wav">>, <<"x", "mp3">>}
NoName == <<"", "">>

\* input_path: the uploaded file's own name in the temporary directory.
TempPath(name) == <<"tmp">> \o name

\* The path convert_to_wav returns for an input path.
ConvertedPath(name) == <<"cache">> \o OutputPath(name)

\* The files record_audio and the real-time branch write are named from the
\* clock, to the second; each press is given a second of its own.
Stamps == <<"t1", "t2", "t3", "t4">>
StampedPath(j) == <<"cache", Stamps[j], "wav">>

NoPath == <<>>
AudioFiles == {TempPath(n) : n \in UploadNames}
                  \cup {ConvertedPath(n) : n \in UploadNames}
                  \cup {StampedPath(j) : j \in Pipelines}

IdlePipeline ==
    [pc |-> "idle", mode |-> "", name |-> NoName,
     transcription |-> "",           \* "", "text", "ERROR"
     audio_data |-> 0,
     audio_path |-> NoPath,          \* audio_path / final_audio_path
     \* history of this press
     secured |-> FALSE,              \* secure_audio_processing was called
     securedPath |-> NoPath,         \* with this path
     securedFile |-> "none"]         \* whose file was in this state

\* Nothing to accumulate.
NoScript == [script |-> <<>>, n |-> 0, full_transcription |-> <<>>]

Init ==
    /\ VOSK_AVAILABLE \in BOOLEAN
    /\ WHISPER_AVAILABLE \in BOOLEAN
    /\ audio = [p \in Paths |-> 1]
    /\ dirOk = [v \in VoskDirs |-> v = <<"a", "m">>]
    /\ vosk_model_cache = EmptyMap
    /\ whisper_model_cache = EmptyMap
    /\ resCache = EmptyMap
    /\ resLocks = {}
    /\ dataCache = EmptyMap
    /\ dataLocks = {}
    /\ cacheFiles = EmptyMap
    /\ calls = [t \in Calls |-> IdleCall]
    /\ loads = [k \in ResKeys |-> 0]
    /\ handed = {}
    /\ sessions = [x \in Sessions |-> IdleSession]
    /\ accum = NoScript
    /\ tools = [bundled |-> TRUE, path |-> TRUE]
    /\ outputs = [f \in OutputPaths |-> "none"]
    /\ conv = [k \in Conversions |-> IdleConversion]
    /\ pipes = [j \in Pipelines |-> IdlePipeline]
    /\ disk = [f \in AudioFiles |-> "none"]

\* ------------------------------------------------- environment (callers)

\* What may come to stand at a path after content c: each content is uploaded
\* once, in order, and a removed file stays removed.
NextContents(c) == IF c = NoFile THEN {} ELSE {d \in Contents : d > c} \cup {NoFile}

\* An upload is saved to the temp directory under the uploaded file's name,
\* replacing what is there (ui_components.py:594-601), or the file is removed.
ReplaceFile(p, c) ==
    /\ c \in NextContents(audio[p])
    /\ audio' = [audio EXCEPT ![p] = c]
    /\ UNCHANGED <<envVars, streamVars, toolVars, dirOk, modelVars, dataCache, dataLocks, cacheFiles,
                   calls>>

\* The operator downloads and extracts a missing Vosk model directory.
InstallModel(v) ==
    /\ ~dirOk[v]
    /\ dirOk' = [dirOk EXCEPT ![v] = TRUE]
    /\ UNCHANGED <<envVars, streamVars, toolVars, audio, modelVars, dataCache, dataLocks, cacheFiles,
                   calls>>

\* ------------------------------------ @st.cache_data around the engines

\* A wrapper that computes without waiting for the key's lock.
LockNeverHeld(locks, key) == TRUE

\* The compute lock of a key is free.
LockFree(locks, key) == key \notin locks

\* The engine body returns value: the wrapper stores it in the memo under the
\* call's key, releases the key's lock and hands it to the caller.
\* c is the call's record as this step leaves it.
BodyReturn(t, c, value) ==
    /\ calls' = [calls EXCEPT ![t] = [c EXCEPT !.pc = "done", !.ret = value]]
    /\ dataCache' = Put(dataCache, MemoKey(c), value)
    /\ dataLocks' = dataLocks \ {MemoKey(c)}

\* The engine body goes on to its next step.
BodyStep(t, c) ==
    /\ calls' = [calls EXCEPT ![t] = c]
    /\ UNCHANGED <<dataCache, dataLocks>>

\* A script thread makes the next engine call (ui_components.py:1026, 1040; through
\* transcribe_audio at 425, 626, 822). The wrapper looks into the memo
\* without the lock: a hit returns the stored value.
Call(t, e, p, m) ==
    /\ calls[t].pc = "idle"
    /\ \A u \in Calls : u < t => calls[u].pc # "idle"
    /\ m \in ModelArgsOf(e)
    /\ LET c == [IdleCall EXCEPT !.op = e, !.audio_path = p, !.model_arg = m,
                                 !.alone = \A u \in Calls : u < t => calls[u].pc = "done"]
       IN
       IF MemoKey(c) \in DOMAIN dataCache
       THEN calls' = [calls EXCEPT ![t] = [c EXCEPT !.pc = "done", !.hit = "memo",
                                              !.ret = dataCache[MemoKey(c)]]]
       ELSE calls' = [calls EXCEPT ![t] = [c EXCEPT !.pc = "memo_lock"]]
    /\ UNCHANGED <<envVars, streamVars, toolVars, fsVars, modelVars, dataCache, dataLocks, cacheFiles>>

\* ----------------------------- transcribe_with_vosk / transcribe_with_whisper

\* A digest taken of the file's name.
NameHash(c) == Hash(IF c.audio_path = "p1" THEN 1 ELSE 2)

\* file_hash = get_file_hash(audio_path)
FileHashOf(c) == get_file_hash(c.audio_path)

\* An engine that goes on with whatever get_file_hash handed back.
HashAlwaysUsable(file_hash) == FALSE

\* if not file_hash: return "ERROR: Could not hash input file."
HashFailed(file_hash) == file_hash = NoHash

\* On a memo miss the wrapper takes the key's compute lock and looks again;
\* then the body starts: library check and content hash.
TranscribeStart(t) ==
    /\ calls[t].pc = "memo_lock"
    /\ LET c == calls[t]
           key == MemoKey(c)
       IN
       /\ LockFree(dataLocks, key)
       /\ IF key \in DOMAIN dataCache
          THEN /\ calls' = [calls EXCEPT ![t].pc = "done", ![t].hit = "memo",
                                   ![t].ret = dataCache[key]]
               /\ UNCHANGED <<dataCache, dataLocks>>
          ELSE IF ~Available(c.op)
          THEN BodyReturn(t, c, ErrorText("library not available"))
          ELSE IF HashFailed(FileHashOf(c))
          THEN BodyReturn(t, c, ErrorText("Could not hash input file"))
          ELSE /\ calls' = [calls EXCEPT ![t].pc = "lookup",
                                   ![t].file_hash = FileHashOf(c)]
               /\ dataLocks' = dataLocks \cup {key}
               /\ UNCHANGED dataCache
    /\ UNCHANGED <<envVars, streamVars, toolVars, fsVars, modelVars, cacheFiles>>

\* A read that hands back nothing of the file.
ReadNothing(cf) == EmptyText

\* with open(cache_file, 'r', encoding='utf-8') as f: return f.read()
ReadCacheFile(cf) == cacheFiles[cf]

\* A read failure that falls through past the model and the recogniser.
ReadFailureSkipsDecode(c) == [c EXCEPT !.pc = "write_open", !.readFail = TRUE]

\* except Exception: the warning is logged and the body falls through to the
\* miss path.
AfterReadFailure(c) == [c EXCEPT !.pc = "acq", !.readFail = TRUE]

\* if cache_file.exists(): try: return f.read() except: (warning, fall through)
CacheLookup(t) ==
    /\ calls[t].pc = "lookup"
    /\ LET c == calls[t]
           cf == CacheFileOf(c)
       IN
       IF cf \in DOMAIN cacheFiles
       THEN \E readable \in BOOLEAN :
              IF readable
              THEN BodyReturn(t, [c EXCEPT !.hit = "file"], ReadCacheFile(cf))
              ELSE BodyStep(t, AfterReadFailure(c))
       ELSE BodyStep(t, [c EXCEPT !.pc = "acq"])
    /\ UNCHANGED <<envVars, streamVars, toolVars, fsVars, modelVars, cacheFiles>>

\* ------------------- @st.cache_resource around load_vosk_model / load_whisper_model

\* The load function returned handle h to the engine.
AcquireReturn(t, c, h) ==
    /\ BodyStep(t, [c EXCEPT !.pc = "decode", !.model = h])
    /\ handed' = handed \cup {h}

\* The load function raised: the engine's except clause turns it into a string.
AcquireRaise(t, c, exc) ==
    /\ BodyReturn(t, [c EXCEPT !.exc = exc], ErrorFor(c.op, exc))
    /\ UNCHANGED handed

\* A load function without the directory check.
ModelDirAssumed(e, m) == TRUE

\* model_path_obj.exists() and model_path_obj.is_dir()
ModelDirFound(e, m) == e = "vosk" => dirOk[m]

\* The engine calls the load function. The wrapper returns a stored handle;
\* else it takes the key's compute lock, looks again and runs the body up to
\* the start of the underlying load: library check, dict lookup, directory
\* check (Vosk).
LoadModel(t) ==
    /\ calls[t].pc = "acq"
    /\ LET c == calls[t]
           e == c.op
           m == c.model_arg
           key == ResKey(e, m)
       IN
       /\ LockFree(resLocks, key)
       /\ IF key \in DOMAIN resCache
          THEN /\ AcquireReturn(t, c, resCache[key])
               /\ UNCHANGED <<resCache, resLocks, loads>>
          ELSE IF ~Available(e)
          THEN /\ AcquireRaise(t, c, "ImportError")
               /\ UNCHANGED <<resCache, resLocks, loads>>
          ELSE IF DictKey(e, m) \in DOMAIN ModelDict(e)
          THEN /\ AcquireReturn(t, c, ModelDict(e)[DictKey(e, m)])
               /\ resCache' = Put(resCache, key, ModelDict(e)[DictKey(e, m)])
               /\ UNCHANGED <<resLocks, loads>>
          ELSE IF ~ModelDirFound(e, m)
          THEN /\ AcquireRaise(t, c, "FileNotFoundError")
               /\ UNCHANGED <<resCache, resLocks, loads>>
          ELSE /\ BodyStep(t, [c EXCEPT !.pc = "loading", !.didLoad = TRUE,
                                          !.serial = loads[key] + 1])
               /\ resLocks' = resLocks \cup {key}
               /\ loads' = [loads EXCEPT ![key] = @ + 1]
               /\ UNCHANGED <<resCache, handed>>
    /\ UNCHANGED <<envVars, streamVars, toolVars, fsVars, vosk_model_cache, whisper_model_cache,
                   cacheFiles>>

\* A dict that keeps the entry of a load that raised.
DictKeepsFailedLoad(dict, k, h, ok) == Put(dict, k, h)

\* A dict that is emptied when a load raises.
DictClearedOnFailure(dict, k, h, ok) == IF ok THEN Put(dict, k, h) ELSE EmptyMap

\* The model dict after a load of key k: the new handle on success, the dict
\* as it was when the load raised.
DictAfterLoad(dict, k, h, ok) == IF ok THEN Put(dict, k, h) ELSE dict

\* Model(path) / whisper.load_model(size) finished: stored and returned, or
\* the exception is logged and raised again. The wrapper stores a returned
\* handle and releases the lock.
LoadEnd(t) ==
    /\ calls[t].pc = "loading"
    /\ LET c == calls[t]
           e == c.op
           m == c.model_arg
           key == ResKey(e, m)
           h == Handle(key, c.serial)
           waiting == {u \in Calls : /\ calls[u].pc = "acq"
                                     /\ ResKey(calls[u].op, calls[u].model_arg) = key}
       IN
       \E ok \in BOOLEAN :
          /\ vosk_model_cache' =
                IF e = "vosk" THEN DictAfterLoad(vosk_model_cache, m, h, ok)
                ELSE vosk_model_cache
          /\ whisper_model_cache' =
                IF e = "whisper"
                THEN DictAfterLoad(whisper_model_cache, WhisperCacheKey(m), h, ok)
                ELSE whisper_model_cache
          /\ resCache' = IF ok THEN Put(resCache, key, h) ELSE resCache
          /\ resLocks' = resLocks \ {key}
          /\ IF ok THEN AcquireReturn(t, [c EXCEPT !.waiters = waiting], h)
             ELSE AcquireRaise(t, c, "Exception")
    /\ UNCHANGED <<envVars, streamVars, toolVars, fsVars, loads, cacheFiles>>

\* --------------------------------------------- decode and result-cache write

\* What the recogniser run can end in, given what is at the audio path.
DecodeOutcomes(e, content) ==
    IF e = "vosk"
    THEN IF content = NoFile THEN {"FileNotFoundError"}
         ELSE {"ok", "wave.Error", "Exception"}
    ELSE IF content = NoFile THEN {"FileNotFoundError", "Exception"}
         ELSE {"ok", "Exception"}

\* KaldiRecognizer over wave.open(audio_path) / model.transcribe(audio_path).
Decode(t) ==
    /\ calls[t].pc = "decode"
    /\ LET c == [calls[t] EXCEPT !.didDecode = TRUE] IN
       \E out \in DecodeOutcomes(c.op, audio[c.audio_path]) :
          IF out = "ok"
          THEN BodyStep(t, [c EXCEPT !.pc = "write_open",
                                     !.transcription =
                                         DecodeText(c.op, c.model.key[2],
                                                    audio[c.audio_path])])
          ELSE BodyReturn(t, c, ErrorFor(c.op, out))
    /\ UNCHANGED <<envVars, streamVars, toolVars, fsVars, modelVars, cacheFiles>>

\* The cache file's text as a sequence: empty when there is no such file.
EntryOf(files, cf) == IF cf \in DOMAIN files THEN <<files[cf]>> ELSE <<>>

\* A write that leaves the file as open() made it.
TextLost(c) == EmptyText

\* f.write(transcription): the text that goes into the cache file.
TextToCache(c) == c.transcription

\* open(cache_file, 'w'): creates or truncates the file, or raises (logged,
\* and the engine returns the transcription).
WriteOpen(t) ==
    /\ calls[t].pc = "write_open"
    /\ LET c == calls[t] IN
       \E ok \in BOOLEAN :
          IF ok
          THEN /\ cacheFiles' = Put(cacheFiles, CacheFileOf(c), EmptyText)
               /\ BodyStep(t, [c EXCEPT !.pc = "write_flush",
                                        !.before = EntryOf(cacheFiles, CacheFileOf(c))])
          ELSE /\ BodyReturn(t, [c EXCEPT !.wrote = "open failed"], c.transcription)
               /\ UNCHANGED cacheFiles
    /\ UNCHANGED <<envVars, streamVars, toolVars, fsVars, modelVars>>

\* f.write(transcription) and the close of the with block, or they raise
\* (logged); either way the engine returns the transcription.
WriteFlush(t) ==
    /\ calls[t].pc = "write_flush"
    /\ LET c == calls[t] IN
       \E ok \in BOOLEAN :
          IF ok
          THEN /\ cacheFiles' = Put(cacheFiles, CacheFileOf(c), TextToCache(c))
               /\ BodyReturn(t, [c EXCEPT !.wrote = "ok"], c.transcription)
          ELSE /\ BodyReturn(t, [c EXCEPT !.wrote = "write failed"], c.transcription)
               /\ UNCHANGED cacheFiles
    /\ UNCHANGED <<envVars, streamVars, toolVars, fsVars, modelVars>>

\* ------------------------------------------------------------ specification

Next ==
    \/ \E t \in Calls, e \in Engines, p \in Paths, m \in VoskDirs \cup WhisperSizes :
          Call(t, e, p, m)
    \/ \E v \in VoskDirs : InstallModel(v)
    \/ \E t \in Calls : TranscribeStart(t)
    \/ \E t \in Calls : CacheLookup(t)
    \/ \E t \in Calls : LoadModel(t)
    \/ \E t \in Calls : LoadEnd(t)
    \/ \E t \in Calls : Decode(t)
    \/ \E t \in Calls : WriteOpen(t)
    \/ \E t \in Calls : WriteFlush(t)

Spec == Init /\ [][Next]_vars

\* The same with the audio files changing under the calls.
NextFiles ==
    \/ Next
    \/ \E p \in UploadPaths, c \in Contents \cup {NoFile} : ReplaceFile(p, c)

SpecFiles == Init /\ [][NextFiles]_vars

\* ------------------------------------------------------------ transcribe_audio

\* Engine identifiers are strings, held as sequences of tokens: words without
\* a colon, and the colon. The identifiers the callers pass.
ModelInfos ==
    {<<"a", "m">>, <<"b", "m">>,
     <<"whisper", ":", "tiny">>, <<"whisper", ":", "base">>,
     <<"whisper", ":", "huge">>, <<"whisper", ":">>,
     <<"whisper", ":", "tiny", ":", "base">>,
     <<"whisper", "tiny">>, <<"vosk", ":", "tiny">>, <<"tiny">>}

\* model_info.startswith(prefix)
StartsWith(str, prefix) ==
    /\ Len(str) >= Len(prefix)
    /\ SubSeq(str, 1, Len(prefix)) = prefix

\* model_info.split(sep)
RECURSIVE Split(_, _)
Split(str, sep) ==
    IF \E i \in 1 .. Len(str) : str[i] = sep
    THEN LET i == CHOOSE j \in 1 .. Len(str) :
                     /\ str[j] = sep
                     /\ \A k \in 1 .. (j - 1) : str[k] # sep
         IN <<SubSeq(str, 1, i - 1)>> \o Split(SubSeq(str, i + 1, Len(str)), sep)
    ELSE <<str>>

\* A dispatcher that knows one size only.
OnlyTiny(parts) == Len(parts) = 2 /\ parts[2] = <<"tiny">>

\* len(parts) == 2 and parts[1] in ["tiny", "base"]
ValidSize(parts) == Len(parts) = 2 /\ parts[2] \in {<<"tiny">>, <<"base">>}

\* Directories of the working directory whose names read as Whisper tags.
TagDirs == {<<"whisper", ":", "tiny">>, <<"whisper", ":", "huge">>}

\* Path(model_info).is_dir()
is_dir(model_info) ==
    \/ model_info \in TagDirs
    \/ model_info \in DOMAIN dirOk /\ dirOk[model_info]

NoRoute(what) == [engine |-> "none", arg |-> <<>>, error |-> ErrorText(what)]
RouteTo(e, m) == [engine |-> e, arg |-> m, error |-> EmptyText]

\* A dispatcher that looks for a directory first.
ResolveDirFirst(model_info) ==
    IF is_dir(model_info) THEN RouteTo("vosk", model_info)
    ELSE IF StartsWith(model_info, <<"whisper", ":">>)
    THEN LET parts == Split(model_info, ":") IN
         IF ValidSize(parts) THEN RouteTo("whisper", parts[2])
         ELSE NoRoute("Invalid Whisper model info format")
    ELSE NoRoute("Invalid model info")

\* The branches of transcribe_audio: which engine it calls with which
\* argument, or the error string it returns.
Resolve(model_info) ==
    IF StartsWith(model_info, <<"whisper", ":">>)
    THEN LET parts == Split(model_info, ":") IN
         IF ValidSize(parts) THEN RouteTo("whisper", parts[2])
         ELSE NoRoute("Invalid Whisper model info format")
    ELSE IF is_dir(model_info) THEN RouteTo("vosk", model_info)
    ELSE NoRoute("Invalid model info")

\* A script thread calls transcribe_audio(audio_path, model_info): it returns
\* an error string, or calls the engine (whose wrapper looks into the memo).
transcribe_audio(t, p, model_info) ==
    /\ calls[t].pc = "idle"
    /\ \A u \in Calls : u < t => calls[u].pc # "idle"
    /\ LET r == Resolve(model_info)
           c == [IdleCall EXCEPT !.op = r.engine, !.audio_path = p,
                                 !.model_arg = r.arg, !.model_info = model_info,
                                 !.alone = \A u \in Calls : u < t => calls[u].pc = "done"]
       IN
       IF r.engine = "none"
       THEN calls' = [calls EXCEPT ![t] = [c EXCEPT !.pc = "done", !.ret = r.error]]
       ELSE IF MemoKey(c) \in DOMAIN dataCache
       THEN calls' = [calls EXCEPT ![t] = [c EXCEPT !.pc = "done", !.hit = "memo",
                                              !.ret = dataCache[MemoKey(c)]]]
       ELSE calls' = [calls EXCEPT ![t] = [c EXCEPT !.pc = "memo_lock"]]
    /\ UNCHANGED <<envVars, streamVars, toolVars, fsVars, modelVars, dataCache, dataLocks, cacheFiles>>

\* The engines called through transcribe_audio only.
NextResolve ==
    \/ \E t \in Calls, p \in UploadPaths, model_info \in ModelInfos :
          transcribe_audio(t, p, model_info)
    \/ \E t \in Calls : TranscribeStart(t)
    \/ \E t \in Calls : CacheLookup(t)
    \/ \E t \in Calls : LoadModel(t)
    \/ \E t \in Calls : LoadEnd(t)
    \/ \E t \in Calls : Decode(t)
    \/ \E t \in Calls : WriteOpen(t)
    \/ \E t \in Calls : WriteFlush(t)

SpecResolve == Init /\ [][NextResolve]_vars

\* ------------------------------------------------------ real_time_transcribe

\* The session's call has returned pair to the caller.
SessionReturn(x, ses, pair) ==
    sessions' = [sessions EXCEPT ![x] = [ses EXCEPT !.pc = "done", !.result = pair,
                                                    !.stream = "closed",
                                                    !.p = Finally(@),
                                                    !.outcome = CallerOutcome(pair)]]

\* A setup step failed: st.error(what), return "", b"".
SessionFail(x, ses, what) ==
    sessions' = [sessions EXCEPT ![x] = [ses EXCEPT !.pc = "failed", !.error = what,
                                                    !.result = FailurePair,
                                                    !.stream = "closed",
                                                    !.p = Finally(@),
                                                    !.outcome = CallerOutcome(FailurePair)]]

\* A setup that opens the capture stream before it has the model.
OpenFirst == <<"open", "model">>

\* The setup of real_time_transcribe after its imports: the recogniser's
\* model, then PyAudio and the capture stream.
SetupSteps == <<"model", "open">>

\* The step that follows setup step st: the next one, or the capture loop.
StepAfter(st) ==
    LET k == CHOOSE j \in 1 .. Len(SetupSteps) : SetupSteps[j] = st IN
    IF k = Len(SetupSteps) THEN "loop" ELSE SetupSteps[k + 1]

\* "Start Recording" with real-time transcription on: the script calls
\* real_time_transcribe(duration, model_info); total_iterations chunks are to
\* be read.
StartRecording(x, m, n) ==
    /\ sessions[x].pc = "idle"
    /\ \A y \in Sessions : y < x => sessions[y].pc \in {"done", "failed", "aborted"}
    /\ sessions' = [sessions EXCEPT ![x] = [IdleSession EXCEPT !.pc = "imports",
                                               !.model_path = m,
                                               !.total_iterations = n]]
    /\ UNCHANGED <<envVars, fsVars, modelVars, batchVars, toolVars>>

\* from vosk import KaldiRecognizer; the PyAudio format constant.
SessionImports(x) ==
    /\ sessions[x].pc = "imports"
    /\ IF ~VOSK_AVAILABLE
       THEN SessionFail(x, sessions[x], "Real-time transcription components not found")
       ELSE sessions' = [sessions EXCEPT ![x].pc = SetupSteps[1]]
    /\ UNCHANGED <<envVars, fsVars, modelVars, batchVars, toolVars>>

\* model = load_vosk_model(model_path): as for the batch engine, up to the
\* start of the underlying load.
SessionLoadModel(x) ==
    /\ sessions[x].pc = "model"
    /\ LET ses == [sessions[x] EXCEPT !.acquire = "started"]
           m == ses.model_path
           key == ResKey("vosk", m)
       IN
       /\ LockFree(resLocks, key)
       /\ IF key \in DOMAIN resCache
          THEN /\ sessions' = [sessions EXCEPT ![x] = [ses EXCEPT !.pc = "rec",
                                                          !.model = resCache[key]]]
               /\ UNCHANGED <<resCache, resLocks, loads>>
          ELSE IF m \in DOMAIN vosk_model_cache
          THEN /\ sessions' = [sessions EXCEPT ![x] = [ses EXCEPT !.pc = "rec",
                                                          !.model = vosk_model_cache[m]]]
               /\ resCache' = Put(resCache, key, vosk_model_cache[m])
               /\ UNCHANGED <<resLocks, loads>>
          ELSE IF ~ModelDirFound("vosk", m)
          THEN /\ SessionFail(x, [ses EXCEPT !.acquire = "failed"],
                              "Failed to initialize transcription model")
               /\ UNCHANGED <<resCache, resLocks, loads>>
          ELSE /\ sessions' = [sessions EXCEPT ![x] = [ses EXCEPT !.pc = "loading"]]
               /\ resLocks' = resLocks \cup {key}
               /\ loads' = [loads EXCEPT ![key] = @ + 1]
               /\ UNCHANGED resCache
    /\ UNCHANGED <<envVars, fsVars, vosk_model_cache, whisper_model_cache, handed,
                   batchVars, toolVars>>

\* Model(path) finished: stored and returned, or raised again and caught by
\* the except clause of real_time_transcribe.
SessionLoadEnd(x) ==
    /\ sessions[x].pc = "loading"
    /\ LET ses == sessions[x]
           m == ses.model_path
           key == ResKey("vosk", m)
           h == Handle(key, loads[key])
       IN
       \E ok \in BOOLEAN :
          /\ vosk_model_cache' = DictAfterLoad(vosk_model_cache, m, h, ok)
          /\ resCache' = IF ok THEN Put(resCache, key, h) ELSE resCache
          /\ resLocks' = resLocks \ {key}
          /\ IF ok
             THEN sessions' = [sessions EXCEPT ![x] = [ses EXCEPT !.pc = "rec",
                                                          !.model = h]]
             ELSE SessionFail(x, [ses EXCEPT !.acquire = "failed"],
                              "Failed to initialize transcription model")
    /\ UNCHANGED <<envVars, fsVars, whisper_model_cache, loads, handed, batchVars,
                   toolVars>>

\* rec = KaldiRecognizer(model, RATE); rec.SetWords(True)
SessionRecognizer(x) ==
    /\ sessions[x].pc = "rec"
    /\ \E ok \in BOOLEAN :
          IF ok
          THEN sessions' = [sessions EXCEPT ![x].pc = StepAfter("model"),
                                            ![x].rec = TRUE,
                                            ![x].acquire = "ok"]
          ELSE SessionFail(x, [sessions[x] EXCEPT !.acquire = "failed"],
                           "Failed to initialize transcription model")
    /\ UNCHANGED <<envVars, fsVars, modelVars, batchVars, toolVars>>

\* p = pyaudio.PyAudio(); with audio_stream(p, ...) as (stream, _): or the
\* outer except clause.
SessionOpen(x) ==
    /\ sessions[x].pc = "open"
    /\ \E got \in {"nothing", "pyaudio", "stream"} :
          IF got = "stream"
          THEN sessions' = [sessions EXCEPT ![x].pc = StepAfter("open"),
                                            ![x].p = "live",
                                            ![x].stream = "open",
                                            ![x].opened = TRUE]
          ELSE SessionFail(x, [sessions[x] EXCEPT
                                  !.p = IF got = "pyaudio" THEN "live" ELSE "none"],
                           "Real-time transcription failed")
    /\ UNCHANGED <<envVars, fsVars, modelVars, batchVars, toolVars>>

\* The text the recogniser reports for a chunk or at the end, as its
\* characters: nothing or a word.
Words == {<<>>, <<"h", "i">>}

\* str.strip(): leading and trailing whitespace removed.
RECURSIVE lstrip(_)
lstrip(str) ==
    IF str # <<>> /\ Head(str) = " " THEN lstrip(Tail(str)) ELSE str

RECURSIVE rstrip(_)
rstrip(str) ==
    IF str # <<>> /\ str[Len(str)] = " "
    THEN rstrip(SubSeq(str, 1, Len(str) - 1)) ELSE str

strip(str) == lstrip(rstrip(str))

\* A segment put before the text so far.
PrependText(full, text) == strip(text \o <<" ">> \o full)

\* full_transcription = (full_transcription + " " + text).strip()
AppendText(full, text) == strip(full \o <<" ">> \o text)

\* A commit that adds nothing.
CommitNothing(full, text) == full

\* if partial_text: full_transcription = (... + " " + partial_text).strip()
Commit(full, text) == IF text # <<>> THEN AppendText(full, text) ELSE full

\* A partial hypothesis that is committed like a result.
HypothesisCommitted(full, text) == Commit(full, text)

\* else: partial_text goes to the display after the text so far;
\* full_transcription is not assigned.
Hypothesis(full, text) == full

\* The with block is left: the stream is closed and the final block follows,
\* or closing raises and the outer except clause returns "", b"" with no
\* final block.
LeaveLoop(x, ses) ==
    \E ok \in BOOLEAN :
       IF ok
       THEN sessions' = [sessions EXCEPT ![x] =
                            [ses EXCEPT !.pc = "final", !.stream = "closed",
                                        !.atStop = ses.full_transcription]]
       ELSE sessions' = [sessions EXCEPT ![x] =
                            [ses EXCEPT !.pc = "aborted", !.stream = "closed",
                                        !.atStop = ses.full_transcription,
                                        !.error = "Real-time transcription failed",
                                        !.result = FailurePair,
                                        !.p = Finally(@),
                                        !.outcome = CallerOutcome(FailurePair)]]

\* A pass of the loop that is made again with the same index.
SameIndex(i) == i

\* for i in range(total_iterations): the index of the pass after pass i.
NextIndex(i) == i + 1

\* One pass of the capture loop: the chunk is read (an IOError skips it) and
\* fed to the recogniser, which answers with a result, committed when not
\* empty, or with a partial hypothesis; any other exception ends the loop.
Listen(x) ==
    /\ sessions[x].pc = "loop"
    /\ sessions[x].i < sessions[x].total_iterations
    /\ LET ses == [sessions[x] EXCEPT !.i = NextIndex(@), !.heard = ""] IN
       \/ sessions' = [sessions EXCEPT ![x] = ses]
       \/ \E text \in Words :
             sessions' = [sessions EXCEPT ![x] =
                             [ses EXCEPT !.reads = @ + 1, !.frames = @ + 1,
                                         !.fed = @ + 1, !.heard = "result",
                                         !.full_transcription = Commit(@, text)]]
       \/ \E text \in Words :
             sessions' = [sessions EXCEPT ![x] =
                             [ses EXCEPT !.reads = @ + 1, !.frames = @ + 1,
                                         !.fed = @ + 1, !.heard = "partial",
                                         !.full_transcription = Hypothesis(@, text)]]
       \/ LeaveLoop(x, [ses EXCEPT !.reads = @ + 1, !.frames = @ + 1,
                                    !.fed = @ + 1])
    /\ UNCHANGED <<envVars, fsVars, modelVars, batchVars, toolVars>>

\* range(total_iterations) is exhausted: the with block closes the stream.
EndOfLoop(x) ==
    /\ sessions[x].pc = "loop"
    /\ sessions[x].i >= sessions[x].total_iterations
    /\ LeaveLoop(x, sessions[x])
    /\ UNCHANGED <<envVars, fsVars, modelVars, batchVars, toolVars>>

\* A final block that sits inside the capture loop.
BackToLoop(ses) == IF ses.i < ses.total_iterations THEN "loop" ELSE "save"

\* After rec.FinalResult() the recording is saved.
StepAfterFinal(ses) == "save"

\* final_result = json.loads(rec.FinalResult()), appended when not empty; an
\* exception goes to the outer except clause.
Finalize(x) ==
    /\ sessions[x].pc = "final"
    /\ \/ \E text \in Words :
             sessions' = [sessions EXCEPT ![x].pc = StepAfterFinal(sessions[x]),
                                          ![x].flushed = TRUE,
                                          ![x].final = text,
                                          ![x].full_transcription = Commit(@, text)]
       \/ SessionReturn(x, [sessions[x] EXCEPT !.error = "Real-time transcription failed"],
                        FailurePair)
    /\ UNCHANGED <<envVars, fsVars, modelVars, batchVars, toolVars>>

\* The frames are written to a WAV file and verified: the transcription is
\* returned with the audio, or with b"" when the file could not be saved.
SaveWav(x) ==
    /\ sessions[x].pc = "save"
    /\ LET ses == sessions[x] IN
       \E ok \in BOOLEAN :
          IF ok THEN SessionReturn(x, ses, Result(strip(ses.full_transcription), ses.frames))
          ELSE SessionReturn(x, [ses EXCEPT !.error = "Failed to save recording"],
                             Result(strip(ses.full_transcription), 0))
    /\ UNCHANGED <<envVars, fsVars, modelVars, batchVars, toolVars>>

\* The state of the streaming session a position of real_time_transcribe
\* belongs to. A session whose setup failed has returned without ever
\* listening: it is still Idle.
Phase(pc) ==
    CASE pc \in {"idle", "imports", "model", "loading", "rec", "open", "failed"} -> "Idle"
      [] pc = "loop" -> "Listening"
      [] pc \in {"final", "save"} -> "Finalizing"
      [] pc = "done" -> "Done"
      [] pc = "aborted" -> "Cancelled"

NextStream ==
    \/ \E x \in Sessions, m \in VoskDirs, n \in 1 .. MaxChunks : StartRecording(x, m, n)
    \/ \E x \in Sessions : SessionImports(x)
    \/ \E x \in Sessions : SessionLoadModel(x)
    \/ \E x \in Sessions : SessionLoadEnd(x)
    \/ \E x \in Sessions : SessionRecognizer(x)
    \/ \E x \in Sessions : SessionOpen(x)
    \/ \E x \in Sessions : Listen(x)
    \/ \E x \in Sessions : EndOfLoop(x)
    \/ \E x \in Sessions : Finalize(x)
    \/ \E x \in Sessions : SaveWav(x)

SpecStream == Init /\ [][NextStream]_vars

\* ------------------------------------------------------------- record_audio

\* The path of the WAV file record_audio has saved.
RecordingPath == <<"recording.wav">>

\* What the "Start Recording" handler does with the pair returned by
\* record_audio: it stops with "Recording failed", or transcribes the file.
RecordOutcome(pair) ==
    IF pair.text = <<>> THEN "recording failed" ELSE "transcribe"

\* record_audio has returned pair to the caller.
RecordReturn(x, ses, pc, pair) ==
    sessions' = [sessions EXCEPT ![x] = [ses EXCEPT !.pc = pc, !.result = pair,
                                                    !.stream = "closed",
                                                    !.p = Finally(@),
                                                    !.outcome = RecordOutcome(pair)]]

\* "Start Recording" with real-time transcription off: the script calls
\* record_audio(duration); total_iterations chunks are to be read.
StartRecordAudio(x, n) ==
    /\ sessions[x].pc = "idle"
    /\ \A y \in Sessions : y < x => sessions[y].pc \in {"done", "failed", "aborted"}
    /\ sessions' = [sessions EXCEPT ![x] = [IdleSession EXCEPT !.pc = "record open",
                                               !.total_iterations = n]]
    /\ UNCHANGED <<envVars, fsVars, modelVars, batchVars, toolVars>>

\* p = pyaudio.PyAudio(); the progress bar; with audio_stream(p, ...): or the
\* outer except clause.
RecordOpen(x) ==
    /\ sessions[x].pc = "record open"
    /\ \E got \in {"nothing", "pyaudio", "stream"} :
          IF got = "stream"
          THEN sessions' = [sessions EXCEPT ![x].pc = "record loop",
                                            ![x].p = "live",
                                            ![x].stream = "open",
                                            ![x].opened = TRUE]
          ELSE RecordReturn(x, [sessions[x] EXCEPT
                                   !.p = IF got = "pyaudio" THEN "live" ELSE "none",
                                   !.error = "Recording failed"],
                            "failed", FailurePair)
    /\ UNCHANGED <<envVars, fsVars, modelVars, batchVars, toolVars>>

\* The with block of record_audio is left: the stream is closed and the save
\* follows, or closing raises and the outer except clause returns "", b"".
LeaveRecordLoop(x, ses) ==
    \E ok \in BOOLEAN :
       IF ok
       THEN sessions' = [sessions EXCEPT ![x] = [ses EXCEPT !.pc = "record save",
                                                       !.stream = "closed"]]
       ELSE RecordReturn(x, [ses EXCEPT !.error = "Recording failed"],
                         "aborted", FailurePair)

\* One pass of the recording loop: the chunk is read and kept; an IOError
\* skips it, any other exception ends the loop.
RecordRead(x) ==
    /\ sessions[x].pc = "record loop"
    /\ sessions[x].i < sessions[x].total_iterations
    /\ LET ses == [sessions[x] EXCEPT !.i = NextIndex(@)] IN
       \/ sessions' = [sessions EXCEPT ![x] = ses]
       \/ sessions' = [sessions EXCEPT ![x] =
                          [ses EXCEPT !.reads = @ + 1, !.frames = @ + 1]]
       \/ LeaveRecordLoop(x, [ses EXCEPT !.reads = @ + 1, !.frames = @ + 1,
                                          !.error = "Error during recording"])
    /\ UNCHANGED <<envVars, fsVars, modelVars, batchVars, toolVars>>

\* range(total_iterations) is exhausted.
RecordEnd(x) ==
    /\ sessions[x].pc = "record loop"
    /\ sessions[x].i >= sessions[x].total_iterations
    /\ LeaveRecordLoop(x, sessions[x])
    /\ UNCHANGED <<envVars, fsVars, modelVars, batchVars, toolVars>>

\* The frames are written to a WAV file and verified: its path is returned
\* with the audio, or "", b"" when the file could not be saved.
RecordSave(x) ==
    /\ sessions[x].pc = "record save"
    /\ LET ses == sessions[x] IN
       \E ok \in BOOLEAN :
          IF ok THEN RecordReturn(x, ses, "done", Result(RecordingPath, ses.frames))
          ELSE RecordReturn(x, [ses EXCEPT !.error = "Failed to save recording"],
                            "done", FailurePair)
    /\ UNCHANGED <<envVars, fsVars, modelVars, batchVars, toolVars>>

NextRecord ==
    \/ \E x \in Sessions, n \in 1 .. MaxChunks : StartRecordAudio(x, n)
    \/ \E x \in Sessions : RecordOpen(x)
    \/ \E x \in Sessions : RecordRead(x)
    \/ \E x \in Sessions : RecordEnd(x)
    \/ \E x \in Sessions : RecordSave(x)

\* Recordings of both kinds, started one after another.
NextCapture == NextStream \/ NextRecord

SpecCapture == Init /\ [][NextCapture]_vars

\* The same, with every read of the open stream coming back, with a chunk or
\* with an exception, and the loop statement going on.
SpecCaptureFair ==
    /\ Init
    /\ [][NextCapture]_vars
    /\ \A x \in Sessions :
          /\ WF_vars(Listen(x))
          /\ WF_vars(EndOfLoop(x))
          /\ WF_vars(RecordRead(x))
          /\ WF_vars(RecordEnd(x))

\* ----------------------------------------------------------- convert_to_wav

\* The FFmpeg binaries present: the bundled copy and one on the PATH.
ToolSets == [bundled : BOOLEAN, path : BOOLEAN]

\* ffmpeg_command: the bundled copy when it exists, else "ffmpeg".
FfmpegCommand == IF tools.bundled THEN "bundled" ELSE "ffmpeg"

\* subprocess.run finds the program to start.
Located == tools.bundled \/ tools.path

\* if Path(output_path).exists(): try: Path(output_path).unlink()
\* except OSError: pass
Cleanup(outs, output_path, unlinked) ==
    IF outs[output_path] # "none" /\ unlinked
    THEN [outs EXCEPT ![output_path] = "none"] ELSE outs

\* What the call raises: the exception's type, its message, and the
\* diagnostic output it carries.
Raised(kind, message, detail) == [kind |-> kind, message |-> message, detail |-> detail]

\* convert_to_wav ends with exception e, the cache directory being outs.
ConvRaise(k, c, e, outs) ==
    /\ outputs' = outs
    /\ conv' = [conv EXCEPT ![k] = [c EXCEPT !.pc = "raised", !.error = e,
                                             !.left = outs[c.output_path]]]

\* convert_to_wav(input_path) up to the start of the tool in subprocess.run:
\* the command is chosen and started, or it cannot be found, or it cannot be
\* executed. Once started, the call waits in subprocess.run.
ConvertRun(k, input_path) ==
    /\ conv[k].pc = "idle"
    /\ \A j \in Conversions : j < k => conv[j].pc \in {"returned", "raised"}
    /\ LET out == OutputPath(input_path)
           c == [IdleConversion EXCEPT !.input_path = input_path,
                                       !.output_path = out,
                                       !.ffmpeg_command = FfmpegCommand,
                                       !.located = Located]
       IN
       IF ~Located
       THEN ConvRaise(k, c, Raised("RuntimeError", "FFmpeg not found.", ""), outputs)
       ELSE \/ \E unlinked \in BOOLEAN :
                 ConvRaise(k, c, Raised("OSError", "", ""),
                           Cleanup(outputs, out, unlinked))
            \/ /\ conv' = [conv EXCEPT ![k] = [c EXCEPT !.pc = "running"]]
               /\ UNCHANGED outputs
    /\ UNCHANGED <<envVars, fsVars, modelVars, batchVars, streamVars, accum, tools,
                   pipeVars>>

\* The tool exits and subprocess.run comes back: with a non-zero code the
\* except clause cleans up and raises; with 0 the verification follows.
\* Nothing else ends the wait.
ToolExit(k) ==
    /\ conv[k].pc = "running"
    /\ LET c == conv[k]
           out == c.output_path
       IN
       \/ \E wrote \in BOOLEAN, unlinked \in BOOLEAN :
            LET outs == IF wrote THEN [outputs EXCEPT ![out] = "partial"]
                        ELSE outputs
            IN ConvRaise(k, [c EXCEPT !.exit = "nonzero"],
                         Raised("RuntimeError", "Audio conversion failed", "stderr"),
                         Cleanup(outs, out, unlinked))
       \/ \E file \in FileStates :
            /\ outputs' = [outputs EXCEPT ![out] = file]
            /\ conv' = [conv EXCEPT ![k] = [c EXCEPT !.pc = "verify",
                                                     !.exit = "zero"]]
    /\ UNCHANGED <<envVars, fsVars, modelVars, batchVars, streamVars, accum, tools,
                   pipeVars>>

\* A verification that takes any file that is there.
AnyFile(file) == file # "none"

\* wave.open(output_path, 'rb') and getnframes() succeed.
ParsesAsWav(file) == file \in {"valid", "empty"}

\* The output is opened as a WAV file: its path is returned; a wave.Error is
\* raised again and answered by the clause for unexpected errors; a
\* FileNotFoundError is raised again and answered by the clause for a missing
\* FFmpeg command.
ConvertVerify(k) ==
    /\ conv[k].pc = "verify"
    /\ LET c == conv[k]
           out == c.output_path
       IN
       CASE ParsesAsWav(outputs[out]) ->
               /\ conv' = [conv EXCEPT ![k] = [c EXCEPT !.pc = "returned",
                                                        !.result = out,
                                                        !.seen = outputs[out],
                                                        !.warned = (outputs[out] = "empty")]]
               /\ UNCHANGED outputs
         [] outputs[out] = "none" ->
               ConvRaise(k, [c EXCEPT !.seen = "none"],
                         Raised("RuntimeError", "FFmpeg not found.", ""), outputs)
         [] OTHER ->
               \E unlinked \in BOOLEAN :
                  ConvRaise(k, [c EXCEPT !.seen = outputs[out]],
                            Raised("wave.Error", "", ""),
                            Cleanup(outputs, out, unlinked))
    /\ UNCHANGED <<envVars, fsVars, modelVars, batchVars, streamVars, accum, tools,
                   pipeVars>>

NextConvert ==
    \/ \E k \in Conversions, f \in ConvInputs : ConvertRun(k, f)
    \/ \E k \in Conversions : ToolExit(k)
    \/ \E k \in Conversions : ConvertVerify(k)

InitConvert ==
    /\ VOSK_AVAILABLE = TRUE
    /\ WHISPER_AVAILABLE = TRUE
    /\ audio = [p \in Paths |-> 1]
    /\ dirOk = [v \in VoskDirs |-> v = <<"a", "m">>]
    /\ vosk_model_cache = EmptyMap
    /\ whisper_model_cache = EmptyMap
    /\ resCache = EmptyMap
    /\ resLocks = {}
    /\ dataCache = EmptyMap
    /\ dataLocks = {}
    /\ cacheFiles = EmptyMap
    /\ calls = [t \in Calls |-> IdleCall]
    /\ loads = [k \in ResKeys |-> 0]
    /\ handed = {}
    /\ sessions = [x \in Sessions |-> IdleSession]
    /\ accum = NoScript
    /\ tools \in ToolSets
    /\ outputs = [f \in OutputPaths |-> "none"]
    /\ conv = [k \in Conversions |-> IdleConversion]
    /\ pipes = [j \in Pipelines |-> IdlePipeline]
    /\ disk = [f \in AudioFiles |-> "none"]

SpecConvert == InitConvert /\ [][NextConvert]_vars

\* The steps of convert_to_wav itself are always taken in the end; when the
\* tool exits is up to the tool.
SpecConvertFair ==
    /\ InitConvert
    /\ [][NextConvert]_vars
    /\ \A k \in Conversions : WF_vars(ConvertVerify(k))

\* ------------------------------------------- the accumulation on its own

\* Texts a recogniser result may carry in its "text" field.
Segments ==
    {<<>>, <<" ">>, <<"a">>, <<"a", " ">>, <<" ", "b">>, <<"a", " ", "b">>}

\* Sequences of at most n segments.
Scripts(n) == UNION {[1 .. k -> Segments] : k \in 0 .. n}

\* The results of a session in order: those of the loop, then the final one.
InitAccumulate ==
    /\ VOSK_AVAILABLE = TRUE
    /\ WHISPER_AVAILABLE = TRUE
    /\ audio = [p \in Paths |-> 1]
    /\ dirOk = [v \in VoskDirs |-> v = <<"a", "m">>]
    /\ vosk_model_cache = EmptyMap
    /\ whisper_model_cache = EmptyMap
    /\ resCache = EmptyMap
    /\ resLocks = {}
    /\ dataCache = EmptyMap
    /\ dataLocks = {}
    /\ cacheFiles = EmptyMap
    /\ calls = [t \in Calls |-> IdleCall]
    /\ loads = [k \in ResKeys |-> 0]
    /\ handed = {}
    /\ sessions = [x \in Sessions |-> IdleSession]
    /\ \E sc \in Scripts(MaxSegments) :
          accum = [script |-> sc, n |-> 0, full_transcription |-> <<>>]
    /\ tools = [bundled |-> TRUE, path |-> TRUE]
    /\ outputs = [f \in OutputPaths |-> "none"]
    /\ conv = [k \in Conversions |-> IdleConversion]
    /\ pipes = [j \in Pipelines |-> IdlePipeline]
    /\ disk = [f \in AudioFiles |-> "none"]

\* The next result of the script is handled as lines 160-167 and 186-189 do.
Accumulate ==
    /\ accum.n < Len(accum.script)
    /\ accum' = [accum EXCEPT !.n = @ + 1,
                              !.full_transcription = Commit(@, accum.script[accum.n + 1])]
    /\ UNCHANGED <<envVars, fsVars, modelVars, batchVars, streamVars, convVars,
                   pipeVars>>

SpecAccumulate == InitAccumulate /\ [][Accumulate]_vars

\* The same calls with nothing readable at the second audio path.
InitUnreadable ==
    /\ VOSK_AVAILABLE \in BOOLEAN
    /\ WHISPER_AVAILABLE \in BOOLEAN
    /\ audio = [p \in Paths |-> IF p = "p2" THEN NoFile ELSE 1]
    /\ dirOk = [v \in VoskDirs |-> v = <<"a", "m">>]
    /\ vosk_model_cache = EmptyMap
    /\ whisper_model_cache = EmptyMap
    /\ resCache = EmptyMap
    /\ resLocks = {}
    /\ dataCache = EmptyMap
    /\ dataLocks = {}
    /\ cacheFiles = EmptyMap
    /\ calls = [t \in Calls |-> IdleCall]
    /\ loads = [k \in ResKeys |-> 0]
    /\ handed = {}
    /\ sessions = [x \in Sessions |-> IdleSession]
    /\ accum = NoScript
    /\ tools = [bundled |-> TRUE, path |-> TRUE]
    /\ outputs = [f \in OutputPaths |-> "none"]
    /\ conv = [k \in Conversions |-> IdleConversion]
    /\ pipes = [j \in Pipelines |-> IdlePipeline]
    /\ disk = [f \in AudioFiles |-> "none"]

SpecUnreadable == InitUnreadable /\ [][Next]_vars

\* ------------------------------------- recording and upload pipelines (UI)
\* render_recording_section and render_upload_section of ui_components.py,
\* each press handled by the script thread of its browser session.

\* "Start Recording" or "Process Uploaded Audio" is pressed.
PipeStart(j) ==
    /\ pipes[j].pc = "idle"
    /\ \E mode \in Modes :
         \E name \in UploadNames :
           /\ mode = "upload wav" => name[2] = "wav"
           /\ mode = "upload other" => name[2] # "wav"
           /\ mode \in {"realtime", "record"} => name = <<"x", "wav">>
           /\ pipes' = [pipes EXCEPT ![j] =
                  [@ EXCEPT !.pc = IF mode \in {"realtime", "record"}
                                     THEN "capture" ELSE "upload",
                            !.mode = mode,
                            !.name = IF mode \in {"realtime", "record"}
                                       THEN NoName ELSE name]]
    /\ UNCHANGED <<envVars, fsVars, modelVars, batchVars, streamVars, accum,
                   convVars, disk>>

\* The press is over; the finally clause of the upload section removes
\* input_path when it exists and is not the final WAV file.
PipeEnd(j, run) ==
    /\ pipes' = [pipes EXCEPT ![j] = [run EXCEPT !.pc = "done"]]
    /\ disk' = IF /\ run.mode \in {"upload wav", "upload other"}
                  /\ disk[TempPath(run.name)] # "none"
                  /\ TempPath(run.name) # run.audio_path
               THEN [disk EXCEPT ![TempPath(run.name)] = "none"]
               ELSE disk

\* Real-time mode: real_time_transcribe returns its pair; an empty pair
\* ends the press.
PipeRealtime(j) ==
    /\ pipes[j].pc = "capture"
    /\ pipes[j].mode = "realtime"
    /\ \E text \in {"", "text"}, data \in {0, 1} :
         LET run == [pipes[j] EXCEPT !.transcription = text, !.audio_data = data]
         IN  IF text = "" /\ data = 0
             THEN PipeEnd(j, run)
             ELSE /\ pipes' = [pipes EXCEPT ![j] = [run EXCEPT !.pc = "save"]]
                  /\ UNCHANGED disk
    /\ UNCHANGED <<envVars, fsVars, modelVars, batchVars, streamVars, accum,
                   convVars>>

\* Real-time mode: the sample width is asked of PyAudio and the file is
\* opened for writing; an exception leaves audio_path empty.
PipeSaveOpen(j) ==
    /\ pipes[j].pc = "save"
    /\ \E ok \in BOOLEAN :
         IF ok
         THEN /\ disk' = [disk EXCEPT ![StampedPath(j)] = "partial"]
              /\ pipes' = [pipes EXCEPT ![j] = [@ EXCEPT !.pc = "saving"]]
         ELSE /\ pipes' = [pipes EXCEPT ![j] =
                     [@ EXCEPT !.pc = "post", !.audio_path = NoPath]]
              /\ UNCHANGED disk
    /\ UNCHANGED <<envVars, fsVars, modelVars, batchVars, streamVars, accum,
                   convVars>>

\* audio_path after the frames were written and the file closed (ok), or
\* after an exception.
SavedPath(path, ok) == IF ok THEN path ELSE NoPath

\* Real-time mode: the frames are written and the file is closed.
PipeSaveWrite(j) ==
    /\ pipes[j].pc = "saving"
    /\ \E ok \in BOOLEAN :
         /\ disk' = [disk EXCEPT ![StampedPath(j)] =
                        IF ok THEN "complete" ELSE "partial"]
         /\ pipes' = [pipes EXCEPT ![j] =
                [@ EXCEPT !.pc = "post",
                          !.audio_path = SavedPath(StampedPath(j), ok)]]
    /\ UNCHANGED <<envVars, fsVars, modelVars, batchVars, streamVars, accum,
                   convVars>>

\* Record mode: record_audio returns the path of the file it wrote and
\* read back, or an empty path, which ends the press.
PipeRecord(j) ==
    /\ pipes[j].pc = "capture"
    /\ pipes[j].mode = "record"
    /\ \E file \in {"none", "partial", "complete"} :
         /\ disk' = [disk EXCEPT ![StampedPath(j)] = file]
         /\ pipes' = [pipes EXCEPT ![j] =
                IF file = "complete"
                THEN [@ EXCEPT !.pc = "transcribe", !.audio_data = 1,
                               !.audio_path = StampedPath(j)]
                ELSE [@ EXCEPT !.pc = "done"]]
    /\ UNCHANGED <<envVars, fsVars, modelVars, batchVars, streamVars, accum,
                   convVars>>

\* Upload: open(input_path, "wb") creates or truncates the temporary file;
\* an exception ends the press.
PipeUploadOpen(j) ==
    /\ pipes[j].pc = "upload"
    /\ \E ok \in BOOLEAN :
         IF ok
         THEN /\ disk' = [disk EXCEPT ![TempPath(pipes[j].name)] = "partial"]
              /\ pipes' = [pipes EXCEPT ![j] = [@ EXCEPT !.pc = "writing"]]
         ELSE PipeEnd(j, pipes[j])
    /\ UNCHANGED <<envVars, fsVars, modelVars, batchVars, streamVars, accum,
                   convVars>>

\* Upload: the bytes are written and the file closed; a WAV file is the
\* final audio file, any other is to be converted.
PipeUploadWrite(j) ==
    /\ pipes[j].pc = "writing"
    /\ \E ok \in BOOLEAN :
         IF ok
         THEN /\ disk' = [disk EXCEPT ![TempPath(pipes[j].name)] = "complete"]
              /\ pipes' = [pipes EXCEPT ![j] =
                     IF pipes[j].mode = "upload wav"
                     THEN [@ EXCEPT !.pc = "transcribe",
                                    !.audio_path = TempPath(pipes[j].name)]
                     ELSE [@ EXCEPT !.pc = "convert"]]
         ELSE PipeEnd(j, pipes[j])
    /\ UNCHANGED <<envVars, fsVars, modelVars, batchVars, streamVars, accum,
                   convVars>>

\* Upload: convert_to_wav returns the path of the WAV file it verified and
\* the temporary input is removed, or it raises and the press ends.
PipeConvert(j) ==
    /\ pipes[j].pc = "convert"
    /\ \E ok \in BOOLEAN :
         IF ok
         THEN /\ disk' = [disk EXCEPT
                             ![ConvertedPath(pipes[j].name)] = "complete",
                             ![TempPath(pipes[j].name)] = "none"]
              /\ pipes' = [pipes EXCEPT ![j] =
                     [@ EXCEPT !.pc = "transcribe",
                               !.audio_path = ConvertedPath(pipes[j].name)]]
         ELSE PipeEnd(j, pipes[j])
    /\ UNCHANGED <<envVars, fsVars, modelVars, batchVars, streamVars, accum,
                   convVars>>

\* The test the callers make of a transcript.
TranscriptionFailed(transcription) ==
    transcription = "" \/ transcription = "ERROR"

\* transcribe_audio(audio_path, model_info) returns. The upload section
\* stops on a failure; the recording section goes on to its common part.
PipeTranscribe(j) ==
    /\ pipes[j].pc = "transcribe"
    /\ \E text \in {"", "text", "ERROR"} :
         LET run == [pipes[j] EXCEPT !.transcription = text]
         IN  IF run.mode = "record"
             THEN /\ pipes' = [pipes EXCEPT ![j] = [run EXCEPT !.pc = "post"]]
                  /\ UNCHANGED disk
             ELSE IF TranscriptionFailed(text)
                  THEN PipeEnd(j, run)
                  ELSE /\ pipes' = [pipes EXCEPT ![j] =
                              [run EXCEPT !.pc = "secure"]]
                       /\ UNCHANGED disk
    /\ UNCHANGED <<envVars, fsVars, modelVars, batchVars, streamVars, accum,
                   convVars>>

\* secure_audio_processing(path, use_encryption) is called by the press.
SecureCall(run, path) ==
    [run EXCEPT !.secured = TRUE, !.securedPath = path,
                !.securedFile = IF path \in DOMAIN disk THEN disk[path]
                                ELSE "none"]

\* Recording section, common part: nothing more after a failed
\* transcription; the secure step only with a non-empty audio_path.
PipePost(j) ==
    /\ pipes[j].pc = "post"
    /\ LET run == pipes[j]
       IN  IF TranscriptionFailed(run.transcription) \/ run.audio_path = NoPath
           THEN PipeEnd(j, run)
           ELSE PipeEnd(j, SecureCall(run, run.audio_path))
    /\ UNCHANGED <<envVars, fsVars, modelVars, batchVars, streamVars, accum,
                   convVars>>

\* Upload section: the secure step on final_audio_path, after diarization.
PipeSecure(j) ==
    /\ pipes[j].pc = "secure"
    /\ PipeEnd(j, SecureCall(pipes[j], pipes[j].audio_path))
    /\ UNCHANGED <<envVars, fsVars, modelVars, batchVars, streamVars, accum,
                   convVars>>

NextPipeline ==
    \E j \in Pipelines :
        \/ PipeStart(j)
        \/ PipeRealtime(j)
        \/ PipeSaveOpen(j)
        \/ PipeSaveWrite(j)
        \/ PipeRecord(j)
        \/ PipeUploadOpen(j)
        \/ PipeUploadWrite(j)
        \/ PipeConvert(j)
        \/ PipeTranscribe(j)
        \/ PipePost(j)
        \/ PipeSecure(j)

SpecPipeline == Init /\ [][NextPipeline]_vars

\* ------------------------------------------------------------------ claims

KeyOf(c) == ResKey(c.op, c.model_arg)

\* The calls whose underlying load of model k is running, ended in a handle,
\* ended in an exception; the calls the load function gave a handle of k.
LoadsInFlight(k) == {t \in Calls : calls[t].pc = "loading" /\ KeyOf(calls[t]) = k}
LoadsCompleted(k) ==
    {t \in Calls : /\ calls[t].didLoad
                   /\ calls[t].model # NoHandle
                   /\ KeyOf(calls[t]) = k}
LoadsFailed(k) ==
    {t \in Calls : /\ calls[t].didLoad
                   /\ calls[t].exc = "Exception"
                   /\ KeyOf(calls[t]) = k}
Holders(k) == {t \in Calls : calls[t].model # NoHandle /\ KeyOf(calls[t]) = k}

\* C1: however the acquires of one model key interleave, at most one
\* underlying load of it runs at a time, every load that did not end in a
\* handle ended in an exception, exactly one load ever ends in a handle once
\* any acquire has returned one, and all acquires return that same handle.
C1_SingleLoad ==
    \A k \in ResKeys :
       /\ Cardinality(LoadsInFlight(k)) + Cardinality(LoadsCompleted(k)) <= 1
       /\ loads[k] = Cardinality(LoadsInFlight(k)) + Cardinality(LoadsCompleted(k))
                     + Cardinality(LoadsFailed(k))
       /\ Holders(k) # {} => Cardinality(LoadsCompleted(k)) = 1
       /\ \A t, u \in Holders(k) : calls[t].model = calls[u].model
       /\ \A h \in handed : h.key = k =>
             /\ Holders(k) # {}
             /\ \A t \in Holders(k) : calls[t].model = h

\* A load ended while other acquires of the key were waiting, and the waiters
\* have since returned the handle it made.
C1_Witness ==
    \E t \in Calls :
       /\ calls[t].waiters # {}
       /\ calls[t].didLoad
       /\ \A u \in calls[t].waiters :
             /\ calls[u].model = calls[t].model
             /\ ~calls[u].didLoad

\* C2: a lookup step that finds the cache file of the call's key and reads it
\* ends the call with the text of that file, with no model acquired or loaded
\* and no recogniser run in the call.
C2_HitReturnsCached ==
    [][\A t \in Calls :
          (/\ calls[t].pc = "lookup"
           /\ calls'[t].pc # "lookup"
           /\ ~calls'[t].readFail
           /\ CacheFileOf(calls[t]) \in DOMAIN cacheFiles)
          => /\ calls'[t].pc = "done"
             /\ calls'[t].hit = "file"
             /\ calls'[t].ret = cacheFiles[CacheFileOf(calls[t])]
             /\ calls'[t].model = NoHandle
             /\ ~calls'[t].didLoad
             /\ ~calls'[t].didDecode
             /\ loads' = loads
             /\ cacheFiles' = cacheFiles]_vars

\* A call returned a transcript it read from the cache file a call before it
\* wrote.
C2_Witness ==
    \E t \in Calls :
       /\ calls[t].pc = "done"
       /\ calls[t].hit = "file"
       /\ ~IsError(calls[t].ret)
       /\ calls[t].ret # EmptyText
       /\ calls[t].ret = cacheFiles[CacheFileOf(calls[t])]

\* Calls t and u ask for the same audio content, engine and model.
SameRequest(t, u) ==
    /\ calls[t].op = calls[u].op
    /\ calls[t].model_arg = calls[u].model_arg
    /\ audio[calls[t].audio_path] = audio[calls[u].audio_path]

\* C3: when a transcribe that returned a transcript is followed by a second
\* transcribe of the same audio content with the same engine and model, the
\* second returns the identical text and runs no recogniser.
C3_Idempotent ==
    \A t, u \in Calls :
       (/\ u = t + 1
        /\ calls[u].alone
        /\ calls[u].pc = "done"
        /\ SameRequest(t, u)
        /\ ~IsError(calls[t].ret))
       => /\ calls[u].ret = calls[t].ret
          /\ ~calls[u].didDecode

\* C4: once a call has written a transcript into the cache file of a key, the
\* file never holds another transcript.
C4_WrittenOnce ==
    \A t \in Calls :
       calls[t].wrote = "ok" =>
          LET cf == CacheFileOf(calls[t]) IN
          cacheFiles[cf] # EmptyText => cacheFiles[cf] = calls[t].transcription

\* The model dict of call c holds an entry for its model, before / after a step.
InDict(c) ==
    IF c.op = "vosk" THEN c.model_arg \in DOMAIN vosk_model_cache
    ELSE WhisperCacheKey(c.model_arg) \in DOMAIN whisper_model_cache
InDictNext(c) ==
    IF c.op = "vosk" THEN c.model_arg \in DOMAIN vosk_model_cache'
    ELSE WhisperCacheKey(c.model_arg) \in DOMAIN whisper_model_cache'

\* C5: when the underlying load of a key raises, the acquire fails with that
\* exception and neither model cache holds an entry for the key; and an acquire
\* of a key no cache holds (its directory present) starts the load again
\* whatever loads of it failed before.
C5_FailedLoadNotCached ==
    [][\A t \in Calls :
          /\ (calls[t].pc = "loading" /\ calls'[t].model = NoHandle
              /\ calls'[t].pc # "loading")
             => /\ calls'[t].exc = "Exception"
                /\ KeyOf(calls[t]) \notin DOMAIN resCache'
                /\ ~InDictNext(calls[t])
          /\ (/\ calls[t].pc = "acq"
              /\ calls'[t] # calls[t]
              /\ KeyOf(calls[t]) \notin DOMAIN resCache
              /\ ModelDirFound(calls[t].op, calls[t].model_arg))
             => /\ calls'[t].pc = "loading"
                /\ loads'[KeyOf(calls[t])] = loads[KeyOf(calls[t])] + 1]_vars

\* A load of a key raised, and a later acquire of the key loaded it.
C5_Witness ==
    \E t, u \in Calls :
       /\ t < u
       /\ KeyOf(calls[t]) = KeyOf(calls[u])
       /\ calls[t].didLoad /\ calls[t].exc = "Exception"
       /\ KeyOf(calls[t]) \notin DOMAIN resCache
       /\ calls[u].pc = "loading"

\* C6: an entry of a model cache is never removed or changed, and an acquire
\* of a key the cache holds returns the stored handle and starts no load.
C6_NoEviction ==
    [][/\ \A k \in DOMAIN resCache :
             k \in DOMAIN resCache' /\ resCache'[k] = resCache[k]
       /\ \A k \in DOMAIN vosk_model_cache :
             k \in DOMAIN vosk_model_cache'
             /\ vosk_model_cache'[k] = vosk_model_cache[k]
       /\ \A k \in DOMAIN whisper_model_cache :
             k \in DOMAIN whisper_model_cache'
             /\ whisper_model_cache'[k] = whisper_model_cache[k]
       /\ \A t \in Calls :
             (/\ calls[t].pc = "acq"
              /\ calls'[t] # calls[t]
              /\ KeyOf(calls[t]) \in DOMAIN resCache)
             => /\ calls'[t].pc = "decode"
                /\ calls'[t].model = resCache[KeyOf(calls[t])]
                /\ ~calls'[t].didLoad
                /\ loads' = loads]_vars

\* A call got the handle an earlier call had loaded and stored, without
\* loading, while the load of another model had failed in between or not.
C6_Witness ==
    \E t, u \in Calls :
       /\ t < u
       /\ calls[t].didLoad
       /\ calls[t].model # NoHandle
       /\ calls[u].alone
       /\ ~calls[u].didLoad
       /\ calls[u].model = calls[t].model
       /\ resCache[KeyOf(calls[u])] = calls[u].model

\* C7: an acquire of a Vosk model that no cache holds and whose directory does
\* not exist raises FileNotFoundError, starts no load and leaves the model
\* caches as they were.
C7_MissingDirNotFound ==
    [][\A t \in Calls :
          (/\ calls[t].pc = "acq"
           /\ calls'[t] # calls[t]
           /\ calls[t].op = "vosk"
           /\ KeyOf(calls[t]) \notin DOMAIN resCache
           /\ ~InDict(calls[t])
           /\ ~dirOk[calls[t].model_arg])
          => /\ calls'[t].exc = "FileNotFoundError"
             /\ calls'[t].model = NoHandle
             /\ ~calls'[t].didLoad
             /\ loads' = loads
             /\ resCache' = resCache
             /\ vosk_model_cache' = vosk_model_cache
             /\ whisper_model_cache' = whisper_model_cache]_vars

\* An acquire of a Vosk model whose directory is missing has raised.
C7_Witness ==
    \E t \in Calls :
       /\ calls[t].op = "vosk"
       /\ calls[t].exc = "FileNotFoundError"
       /\ ~calls[t].didLoad
       /\ ~dirOk[calls[t].model_arg]
       /\ KeyOf(calls[t]) \notin DOMAIN resCache

\* The step with which call t returns a transcript it decoded itself.
MissReturn(t) ==
    /\ calls[t].pc \in {"write_open", "write_flush"}
    /\ calls'[t].pc = "done"

\* C8 as stated: whenever a miss-path transcribe returns text, the cache file
\* of its key holds that text at the return.
C8_EntryHoldsReturned ==
    [][\A t \in Calls :
          MissReturn(t) =>
             /\ CacheFileOf(calls[t]) \in DOMAIN cacheFiles'
             /\ cacheFiles'[CacheFileOf(calls[t])] = calls'[t].ret]_vars

\* C8 as amended: a miss-path transcribe returns the text it decoded only after
\* it acquired the model, decoded and attempted the cache write; when the write
\* succeeded the cache file of its key holds the returned text as the write
\* completes, and when it failed the text is returned all the same.
C8_WriteBeforeReturn ==
    [][\A t \in Calls :
          /\ MissReturn(t) =>
                /\ calls'[t].didDecode
                /\ calls'[t].model # NoHandle
                /\ calls'[t].wrote \in {"ok", "open failed", "write failed"}
                /\ calls'[t].ret = calls[t].transcription
                /\ calls'[t].wrote = "ok" =>
                      cacheFiles'[CacheFileOf(calls[t])] = calls'[t].ret
          /\ (/\ calls'[t].pc = "done"
              /\ calls'[t].hit = "none"
              /\ ~IsError(calls'[t].ret))
             => calls'[t].wrote # "no"]_vars

\* A miss-path call has returned a transcript and its cache file holds it.
C8_Witness ==
    \E t \in Calls :
       /\ calls[t].pc = "done"
       /\ calls[t].hit = "none"
       /\ calls[t].didDecode
       /\ calls[t].wrote = "ok"
       /\ calls[t].ret # EmptyText
       /\ cacheFiles[CacheFileOf(calls[t])] = calls[t].ret

\* C9: a call whose cache file exists and cannot be read goes on to acquire
\* the model and decode, returning nothing from the cache; and when its write
\* succeeds the cache file holds the newly decoded text.
C9_ReadFailureIsMiss ==
    [][\A t \in Calls :
          /\ (calls[t].pc = "lookup" /\ calls'[t].readFail)
             => /\ CacheFileOf(calls[t]) \in DOMAIN cacheFiles
                /\ calls'[t].pc = "acq"
                /\ calls'[t].hit = "none"
                /\ cacheFiles' = cacheFiles
          /\ (/\ calls'[t].readFail
              /\ calls'[t].pc = "done"
              /\ ~IsError(calls'[t].ret))
             => /\ calls'[t].didDecode
                /\ calls'[t].model # NoHandle
                /\ calls'[t].ret = calls'[t].transcription
          /\ (/\ calls[t].readFail
              /\ calls[t].pc = "write_flush"
              /\ calls'[t].wrote = "ok")
             => cacheFiles'[CacheFileOf(calls[t])] = calls[t].transcription]_vars

\* A call could not read the existing cache file of its key, decoded, and
\* overwrote the file with its text.
C9_Witness ==
    \E t \in Calls :
       /\ calls[t].readFail
       /\ calls[t].pc = "done"
       /\ calls[t].before # <<>>
       /\ calls[t].wrote = "ok"
       /\ cacheFiles[CacheFileOf(calls[t])] = calls[t].ret
       /\ calls[t].ret # EmptyText

\* C10: when the cache write fails after a decode, the call returns the decoded
\* text and the cache file of the key is as it was before the write began.
C10_FailedWriteLeavesCache ==
    [][\A t \in Calls :
          (/\ calls[t].pc \in {"write_open", "write_flush"}
           /\ calls'[t].wrote \in {"open failed", "write failed"})
          => /\ calls'[t].pc = "done"
             /\ calls'[t].ret = calls[t].transcription
             /\ ~IsError(calls'[t].ret)
             /\ EntryOf(cacheFiles', CacheFileOf(calls[t])) =
                   IF calls[t].pc = "write_open"
                   THEN EntryOf(cacheFiles, CacheFileOf(calls[t]))
                   ELSE calls[t].before]_vars

\* C11: a call on an audio file whose bytes cannot be read never looks into the
\* result cache, loads no model, decodes nothing and writes nothing, and (the
\* engine's library being installed) returns the hash error.
C11_HashFailureAborts ==
    \A t \in Calls :
       (calls[t].pc # "idle" /\ audio[calls[t].audio_path] = NoFile)
       => /\ calls[t].pc \in {"memo_lock", "done"}
          /\ calls[t].file_hash = NoHash
          /\ calls[t].hit # "file"
          /\ ~calls[t].readFail
          /\ ~calls[t].didLoad
          /\ calls[t].model = NoHandle
          /\ ~calls[t].didDecode
          /\ calls[t].wrote = "no"
          /\ calls[t].pc = "done" =>
                /\ IsError(calls[t].ret)
                /\ Available(calls[t].op) =>
                      calls[t].ret = ErrorText("Could not hash input file")

\* A call on an unreadable audio file has returned the hash error while a cache
\* file written by another call exists.
C11_Witness ==
    \E t \in Calls :
       /\ calls[t].pc = "done"
       /\ audio[calls[t].audio_path] = NoFile
       /\ calls[t].hit = "none"
       /\ calls[t].ret = ErrorText("Could not hash input file")
       /\ cacheFiles # EmptyMap

\* Call t has hashed its audio file and named its cache file.
Hashed(t) == calls[t].pc # "idle" /\ calls[t].file_hash # NoHash

\* Call u has gone through the cache lookup, or was served from the memo.
PastLookup(u) == calls[u].pc \notin {"idle", "memo_lock", "lookup"}

\* Calls for the same audio content, engine and model name the same cache file
\* whatever their paths.
SameEntry ==
    \A t, u \in Calls :
       (Hashed(t) /\ Hashed(u) /\ SameRequest(t, u))
       => CacheFileOf(calls[t]) = CacheFileOf(calls[u])

\* C12 as stated: calls for the same audio content, engine and model name the
\* same cache file, and a call made after one that returned a transcript for
\* the same content, engine and model is a cache hit.
C12_SecondIsHit ==
    /\ SameEntry
    /\ \A t, u \in Calls :
          (/\ t < u
           /\ calls[u].alone
           /\ PastLookup(u)
           /\ SameRequest(t, u)
           /\ ~IsError(calls[t].ret)
           /\ calls[t].didDecode)
          => calls[u].hit # "none"

\* C12 as amended: calls for the same audio content, engine and model name the
\* same cache file whatever their paths, and a call made after one that wrote
\* the entry is a cache hit unless it cannot read the entry.
C12_KeyFromBytes ==
    /\ SameEntry
    /\ \A t, u \in Calls :
          (/\ t < u
           /\ calls[u].alone
           /\ PastLookup(u)
           /\ SameRequest(t, u)
           /\ calls[t].wrote = "ok"
           /\ ~calls[u].readFail)
          => /\ calls[u].hit # "none"
             /\ ~calls[u].didLoad
             /\ ~calls[u].didDecode

\* A call at another path with the same bytes was served from the cache file
\* the first call wrote.
C12_Witness ==
    \E t, u \in Calls :
       /\ t < u
       /\ calls[t].audio_path # calls[u].audio_path
       /\ SameRequest(t, u)
       /\ calls[t].wrote = "ok"
       /\ calls[u].hit = "file"
       /\ calls[u].ret = calls[t].ret
       /\ calls[u].ret # EmptyText

\* The result-cache key of a call: engine kind, content hash, model identifier.
CacheKeyOf(c) == <<c.op, c.file_hash, c.model_arg>>

\* Call t has read a transcript from its cache file, or written one into it.
Touched(t) ==
    \/ calls[t].hit = "file" /\ calls[t].ret # EmptyText
    \/ calls[t].wrote = "ok"

\* C13: two calls whose keys (engine kind, content hash, model identifier)
\* differ never read or write the same cache file.
C13_OneEntryPerKey ==
    \A t, u \in Calls :
       (/\ Hashed(t) /\ Hashed(u)
        /\ Touched(t) /\ Touched(u)
        /\ CacheKeyOf(calls[t]) # CacheKeyOf(calls[u]))
       => CacheFileOf(calls[t]) # CacheFileOf(calls[u])

\* C14: a call served from a cache file gets the complete text some call
\* decoded and wrote, never an empty or partly written file.
C14_NoPartialEntry ==
    \A u \in Calls :
       calls[u].hit = "file" =>
          \E t \in Calls :
             /\ t # u
             /\ calls[t].didDecode
             /\ calls[t].transcription # EmptyText
             /\ calls[u].ret = calls[t].transcription

\* C15: transcribe_audio hands an identifier that is an existing model
\* directory to the Vosk engine with that path, and "whisper:tiny" or
\* "whisper:base" to the Whisper engine with exactly that size.
C15_Routes ==
    \A t \in Calls :
       calls[t].pc # "idle" =>
          /\ (calls[t].model_info \in VoskDirs /\ dirOk[calls[t].model_info])
             => /\ calls[t].op = "vosk"
                /\ calls[t].model_arg = calls[t].model_info
          /\ \A z \in {"tiny", "base"} :
                calls[t].model_info = <<"whisper", ":", z>>
                => /\ calls[t].op = "whisper"
                   /\ calls[t].model_arg = <<z>>

\* "whisper:base" was decoded by the base Whisper model and a model directory
\* was handed to the Vosk engine.
C15_Witness ==
    \E t, u \in Calls :
       /\ calls[t].model_info = <<"whisper", ":", "base">>
       /\ calls[t].didDecode
       /\ calls[t].model.key = ResKey("whisper", <<"base">>)
       /\ calls[u].model_info = <<"a", "m">>
       /\ calls[u].op = "vosk"
       /\ calls[u].pc # "done"

\* The identifier is a tag (it holds a colon) that names no supported size.
BadTag(model_info) ==
    /\ \E i \in 1 .. Len(model_info) : model_info[i] = ":"
    /\ \A z \in {"tiny", "base"} : model_info # <<"whisper", ":", z>>

\* The identifier is the path of a model directory that does not exist.
MissingDir(model_info) == model_info \in VoskDirs /\ ~dirOk[model_info]

\* C16: transcribe_audio calls no engine for a tag that names no supported
\* size, for any other unrecognised identifier and for a path that does not
\* exist, and the error it yields for a path that does not exist differs from
\* the error it yields for a bad tag.
C16_ErrorKinds ==
    /\ \A t \in Calls :
          (BadTag(calls[t].model_info) \/ MissingDir(calls[t].model_info))
          => /\ calls[t].pc = "done"
             /\ calls[t].op = "none"
             /\ ~calls[t].didLoad /\ ~calls[t].didDecode
             /\ IsError(calls[t].ret)
    /\ \A t, u \in Calls :
          (MissingDir(calls[t].model_info) /\ BadTag(calls[u].model_info))
          => calls[t].ret # calls[u].ret

\* The strings an engine returns when the audio file is missing or the
\* recogniser fails.
DecodeErrors(e) ==
    {ErrorFor(e, out) : out \in {"FileNotFoundError", "wave.Error", "Exception"}}

\* C17: a call whose model could not be acquired (directory missing, load
\* failed) runs no decode and writes no cache file, and the error it returns
\* is not one a missing audio file or a failed decode returns.
C17_SetupErrorsVerbatim ==
    \A t \in Calls :
       (calls[t].pc = "done" /\ calls[t].exc # "")
       => /\ ~calls[t].didDecode
          /\ calls[t].wrote = "no"
          /\ IsError(calls[t].ret)
          /\ calls[t].ret \notin DecodeErrors(calls[t].op)

\* The transitions a streaming session may make.
SessionTransitions ==
    {<<"Idle", "Listening">>, <<"Listening", "Finalizing">>,
     <<"Finalizing", "Done">>, <<"Listening", "Cancelled">>}

\* One step of session x respects the state machine: its state changes only
\* along SessionTransitions, a session that has returned stays as it is, and
\* a chunk is read or fed only by a step taken in Listening.
SessionStepOk(x) ==
    LET a == sessions[x]
        b == sessions'[x]
    IN
    /\ Phase(a.pc) # Phase(b.pc) => <<Phase(a.pc), Phase(b.pc)>> \in SessionTransitions
    /\ a.pc \in {"done", "failed", "aborted"} => b = a
    /\ (b.reads # a.reads \/ b.fed # a.fed \/ b.frames # a.frames)
          => Phase(a.pc) = "Listening"

\* C18: a real_time_transcribe session starts Idle; its only transitions are
\* Idle->Listening, Listening->Finalizing, Finalizing->Done and
\* Listening->Cancelled; Done and Cancelled are terminal; no chunk is read or
\* fed to the recogniser once the session has left Listening.
C18_StateMachine ==
    /\ \A x \in Sessions : Phase(sessions[x].pc) = "Idle"
    /\ [][\A x \in Sessions : SessionStepOk(x)]_vars

\* A session listened, committed text, went through Finalizing and is Done.
C18_Witness ==
    \E x \in Sessions :
       /\ sessions[x].pc = "done"
       /\ sessions[x].reads > 0
       /\ sessions[x].i < sessions[x].total_iterations
       /\ sessions[x].result.text # <<>>
\* Session x holds the model its path names in the model cache.
HoldsCachedModel(x) ==
    LET key == ResKey("vosk", sessions[x].model_path) IN
    /\ sessions[x].acquire = "ok"
    /\ key \in DOMAIN resCache
    /\ sessions[x].model = resCache[key]

\* C19 as stated: the model is acquired at the first chunk submission and not
\* earlier, so a session that has started acquiring its model has had a chunk
\* submitted.
C19_AcquireAtFirstChunk ==
    \A x \in Sessions : sessions[x].acquire # "none" => sessions[x].reads > 0

\* C19 amended: the model is acquired through the model cache when the session
\* is started, before the capture stream is opened and before the first chunk
\* is read, and not before the session is started.
C19_AcquireAtStart ==
    \A x \in Sessions :
       /\ sessions[x].pc \in {"idle", "imports"} =>
             sessions[x].acquire = "none" /\ sessions[x].model = NoHandle
       /\ (sessions[x].opened \/ sessions[x].reads > 0
             \/ Phase(sessions[x].pc) # "Idle") => HoldsCachedModel(x)

\* A session is listening with chunks read, its model acquired beforehand.
C19_Witness ==
    \E x \in Sessions :
       /\ sessions[x].pc = "loop"
       /\ sessions[x].reads > 0
       /\ HoldsCachedModel(x)
\* Session y ran to its end with its model acquired and no error reported.
Successful(y) ==
    /\ sessions[y].pc = "done"
    /\ sessions[y].acquire = "ok"
    /\ sessions[y].error = ""

\* C20: a session whose model acquisition failed has ended without opening
\* the capture stream or reading a chunk, and what it returned to its caller
\* differs from what any successful session returned, an empty transcript
\* included.
C20_AcquireFailureTold ==
    \A x \in Sessions :
       sessions[x].acquire = "failed" =>
          /\ sessions[x].pc = "failed"
          /\ ~sessions[x].opened
          /\ sessions[x].reads = 0
          /\ \A y \in Sessions :
                Successful(y) => sessions[y].result # sessions[x].result
\* The non-empty trimmed segments of a script joined with single spaces.
RECURSIVE Joined(_)
Joined(sc) ==
    IF sc = <<>> THEN <<>>
    ELSE LET rest == Joined(Tail(sc))
             seg == strip(Head(sc))
         IN IF seg = <<>> THEN rest
            ELSE IF rest = <<>> THEN seg
            ELSE seg \o <<" ">> \o rest

\* C21: once every segment of a script is committed, the accumulated text is
\* the trimmed non-empty segments joined with exactly one space, with no
\* leading or trailing space.
C21_SingleSpaceJoin ==
    accum.n = Len(accum.script) => accum.full_transcription = Joined(accum.script)
\* Session x has returned from the save of its recording, after the final
\* block.
Finished(x) ==
    /\ sessions[x].pc = "done"
    /\ sessions[x].flushed
    /\ sessions[x].error \in {"", "Failed to save recording"}

\* C22: at the end of a session the text the recogniser reports as final is
\* appended once to the text accumulated in the loop, after a single space as
\* for any segment, and the text returned is the accumulated text after that.
C22_FinalCommitted ==
    \A x \in Sessions :
       Finished(x) =>
          sessions[x].result.text =
             IF sessions[x].final = <<>> THEN sessions[x].atStop
             ELSE strip(sessions[x].atStop \o <<" ">> \o sessions[x].final)

\* A session has returned a text made of a segment committed in the loop and
\* of the final one.
C22_Witness ==
    \E x \in Sessions :
       /\ Finished(x)
       /\ sessions[x].atStop # <<>>
       /\ sessions[x].final # <<>>
       /\ sessions[x].result.text = <<"h", "i", " ", "h", "i">>
\* The capture loop of session x was stopped with chunks left, and the session
\* has returned.
StoppedEarly(x) ==
    /\ sessions[x].pc \in {"done", "aborted"}
    /\ sessions[x].i < sessions[x].total_iterations

\* C23: a session whose capture loop was stopped early returns the text
\* accumulated up to the last segment committed in the loop, with no final
\* flush appended.
C23_CancelReturnsCommitted ==
    \A x \in Sessions :
       StoppedEarly(x) => sessions[x].result.text = sessions[x].atStop
\* C24: a chunk that fails never ends the capture loop: a session that has
\* left Listening has gone through all of its chunks, the failing ones
\* skipped.
C24_BadChunkSkipped ==
    \A x \in Sessions :
       sessions[x].pc \in {"final", "save", "done", "aborted"} =>
          sessions[x].i = sessions[x].total_iterations
\* Text a starts text b.
IsPrefix(a, b) == Len(a) <= Len(b) /\ SubSeq(b, 1, Len(a)) = a

\* C25: whichever way a session ends after a segment was committed, the text
\* it returns contains the segments committed in the loop.
C25_CommittedNeverLost ==
    \A x \in Sessions :
       (sessions[x].pc \in {"done", "aborted"} /\ sessions[x].atStop # <<>>) =>
          IsPrefix(sessions[x].atStop, sessions[x].result.text)
\* Session x has returned to its caller.
Returned(x) == sessions[x].pc \in {"done", "failed", "aborted"}

\* C26: when real_time_transcribe or record_audio has returned, on whatever
\* path, a PyAudio instance the call has acquired is terminated.
C26_CaptureReleased ==
    \A x \in Sessions :
       Returned(x) => sessions[x].p # "live"

\* Calls of both functions have returned on a failure after PyAudio was
\* acquired, with the instance terminated.
C26_Witness ==
    \E x, y \in Sessions :
       /\ Returned(x) /\ Returned(y)
       /\ sessions[x].p = "terminated" /\ sessions[y].p = "terminated"
       /\ sessions[x].acquire = "ok" /\ sessions[x].pc = "aborted"
       /\ sessions[y].acquire = "none" /\ sessions[y].pc = "failed"
\* Session x read its chunks and ended without any error and without any
\* segment committed.
SilentSession(x) ==
    /\ sessions[x].pc = "done"
    /\ sessions[x].error = ""
    /\ sessions[x].flushed
    /\ sessions[x].reads > 0
    /\ sessions[x].full_transcription = <<>>

\* C27: a session in which nothing was committed ends with the empty text as
\* its transcript, and its caller handles that neither as a session that
\* failed nor as a transcription failure.
C27_SilenceIsNotFailure ==
    \A x \in Sessions :
       SilentSession(x) =>
          /\ sessions[x].result.text = <<>>
          /\ sessions[x].outcome \notin {"failed to start", "transcription failure"}
\* C28: a conversion whose transcoder exited with a non-zero code raises the
\* conversion error with the tool's diagnostic output, and no file is left at
\* the output path.
C28_NonZeroExitCleansUp ==
    \A k \in Conversions :
       conv[k].exit = "nonzero" =>
          /\ conv[k].pc = "raised"
          /\ conv[k].error.message = "Audio conversion failed"
          /\ conv[k].error.detail = "stderr"
          /\ conv[k].left = "none"

\* C29: whenever a conversion fails, no file is left at its output path when
\* the error reaches the caller.
C29_FailureLeavesNoFile ==
    \A k \in Conversions :
       conv[k].pc = "raised" => conv[k].left = "none"

\* C30: a failing conversion reports the missing tool exactly when no FFmpeg
\* binary could be located.
C30_ToolMissingOnlyWhenMissing ==
    \A k \in Conversions :
       conv[k].pc = "raised" =>
          (conv[k].error.message = "FFmpeg not found." <=> ~conv[k].located)
\* C31: a conversion returns its output path only after the tool exited with
\* code 0 and the file at that path parsed as a WAV file; a file of zero
\* frames is accepted with a warning.
C31_ReturnOnlyVerified ==
    \A k \in Conversions :
       /\ conv[k].pc = "returned" =>
             /\ conv[k].exit = "zero"
             /\ conv[k].seen \in {"valid", "empty"}
             /\ conv[k].result = OutputPath(conv[k].input_path)
             /\ conv[k].warned = (conv[k].seen = "empty")
       /\ (conv[k].exit = "zero" /\ conv[k].seen = "empty") => conv[k].pc = "returned"

\* A conversion has returned the path of a file of zero frames.
C31_Witness ==
    \E k \in Conversions :
       /\ conv[k].pc = "returned"
       /\ conv[k].seen = "empty"
       /\ conv[k].warned
\* C32: every conversion that has started its tool comes back in the end, with
\* a path or with an error, whether or not the tool ever exits.
C32_ConversionEnds ==
    \A k \in Conversions :
       (conv[k].pc = "running") ~> (conv[k].pc \in {"returned", "raised"})

\* C33: in the recording and upload pipelines secure_audio_processing is
\* never called with an empty path, nor with a path whose file was not
\* completely written at the time of the call.
C33_SecureAfterWrite ==
    \A j \in Pipelines :
        pipes[j].secured =>
            /\ pipes[j].securedPath # NoPath
            /\ pipes[j].securedFile = "complete"

\* C34: a batch transcribe that ends in an error is not kept as a result:
\* once the cause is fixed (the library is there, the model directory is
\* installed, the audio file exists) a call with the same arguments is not
\* answered with the error of the earlier call.
C34_FailuresNotCached ==
    \A t \in Calls :
        (/\ calls[t].pc = "done"
         /\ calls[t].hit = "memo"
         /\ calls[t].op = "vosk"
         /\ VOSK_AVAILABLE
         /\ dirOk[calls[t].model_arg]
         /\ audio[calls[t].audio_path] # NoFile)
        => ~IsError(calls[t].ret)

\* C35: a transcribe call that returns a transcript returns the transcript
\* of the audio bytes at its path at the time of the call, also when the file
\* was replaced since an earlier call with the same path and model: a call
\* answered at once is answered with the text of the present content.
C35_TranscriptOfPresentBytes ==
    [][\A t \in Calls :
          (/\ calls[t].pc = "idle"
           /\ calls'[t].pc = "done"
           /\ audio[calls'[t].audio_path] # NoFile
           /\ Len(calls'[t].ret) = 4
           /\ calls'[t].ret[1] = "text")
          => calls'[t].ret[4] = audio[calls'[t].audio_path]]_vars

\* C36: a chunk for which the recogniser has only a partial hypothesis
\* leaves the accumulated committed text as it was.
C36_PartialLeavesText ==
    [][\A x \in Sessions :
          (/\ sessions[x].pc = "loop"
           /\ sessions'[x].i = sessions[x].i + 1
           /\ sessions'[x].heard = "partial")
          => sessions'[x].full_transcription = sessions[x].full_transcription]_vars

\* A partial hypothesis came after a segment had been committed.
C36_Witness ==
    \E x \in Sessions :
       /\ sessions[x].heard = "partial"
       /\ sessions[x].full_transcription # <<>>

\* C37: within a session the accumulated text only grows: after every result
\* handled, that of the final block included, the text before is a prefix of
\* the text after.
C37_TextOnlyGrows ==
    [][IsPrefix(accum.full_transcription, accum.full_transcription')]_vars

\* A second non-empty segment has been appended to a first.
C37_Witness ==
    /\ accum.n = 2
    /\ Commit(<<>>, accum.script[1]) # <<>>
    /\ accum.full_transcription # Commit(<<>>, accum.script[1])

\* Session x is in the capture loop of real_time_transcribe or record_audio.
InCaptureLoop(x) == sessions[x].pc \in {"loop", "record loop"}

\* C38: the capture loops end: no more than total_iterations chunks are
\* read, every pass, a failed one included, moves the index on by one, and a
\* session in the loop comes to the final block, the save of the recording
\* or an error return.
C38_CaptureLoopsEnd ==
    /\ [](\A x \in Sessions :
            /\ sessions[x].reads <= sessions[x].total_iterations
            /\ sessions[x].i <= sessions[x].total_iterations)
    /\ [][\A x \in Sessions :
            (InCaptureLoop(x) /\ sessions'[x] # sessions[x]
                /\ sessions[x].i < sessions[x].total_iterations)
            => sessions'[x].i = sessions[x].i + 1]_vars
    /\ \A x \in Sessions :
          InCaptureLoop(x) ~>
              (sessions[x].pc \in {"final", "record save", "aborted"})

\* A loop of total_iterations passes has been left with a pass skipped:
\* fewer chunks read than passes made.
C38_Witness ==
    \E x \in Sessions :
       /\ sessions[x].pc \in {"final", "record save"}
       /\ sessions[x].i = sessions[x].total_iterations
       /\ sessions[x].total_iterations = MaxChunks
       /\ sessions[x].reads < sessions[x].i

\* C39: an identifier that begins with "whisper:" is never handed to the
\* Vosk engine, also when a directory of that name exists: it goes to the
\* Whisper engine when it is "whisper:tiny" or "whisper:base", and is
\* rejected with an error otherwise.
C39_TagBeforeDirectory ==
    \A t \in Calls :
       (calls[t].pc # "idle" /\ StartsWith(calls[t].model_info, <<"whisper", ":">>))
       => /\ calls[t].op # "vosk"
          /\ \/ /\ calls[t].op = "whisper"
                /\ calls[t].model_arg \in {<<"tiny">>, <<"base">>}
                /\ calls[t].model_info = <<"whisper", ":">> \o calls[t].model_arg
             \/ /\ calls[t].op = "none"
                /\ calls[t].pc = "done"
                /\ IsError(calls[t].ret)
                /\ ~calls[t].didLoad /\ ~calls[t].didDecode

\* Two identifiers that are also names of directories were dispatched: one
\* went to the Whisper engine and was decoded, the other was rejected.
C39_Witness ==
    \E t, u \in Calls :
       /\ calls[t].model_info = <<"whisper", ":", "tiny">>
       /\ is_dir(calls[t].model_info)
       /\ calls[t].op = "whisper"
       /\ calls[t].didDecode
       /\ calls[u].model_info = <<"whisper", ":", "huge">>
       /\ is_dir(calls[u].model_info)
       /\ calls[u].op = "none"

\* Call t came to a transcript by itself: it read it from the cache file of
\* its key, or the recogniser ran to its end and the call went on to the
\* cache write.
Delivered(t) == calls[t].hit = "file" \/ calls[t].wrote # "no"

====
